---------------------------- MODULE Spec2Model ----------------------------
(***************************************************************************)
(* Accessibility remediation pipeline of backend/a11y.py and               *)
(* backend/fixer.py: chunk extraction, audit rules, fix application and    *)
(* URL normalisation over a BeautifulSoup tree.                            *)
(*                                                                         *)
(* A string is a sequence of atoms (words and punctuation marks); " " is   *)
(* the whitespace atom.  The tree is an arena: a sequence of node records  *)
(* addressed by index, node 1 being the BeautifulSoup object itself.       *)
(***************************************************************************)
EXTENDS Integers, Sequences, FiniteSets, TLC

VARIABLES
    pc,          \* position in the pipeline
    raw,         \* the parsed input document (what BeautifulSoup(html) yields)
    xsoup,       \* the tree extract_chunks traversed, as it left it
    runs,        \* number of runs of extract_chunks (of normalize_urls) so far
    chunks,      \* result of the last extract_chunks
    prevChunks,  \* result of the run before it
    issues,      \* result of audit
    soup,        \* the tree apply_fixes works on
    k,           \* index of the next issue apply_fixes handles
    calls,       \* text-generation calls made: img node |-> outcome
    raised,      \* an exception left apply_fixes
    pre,         \* the tree before the last step of apply_fixes / normalize_urls
    page_url,    \* base URL handed to apply_fixes / normalize_urls
    fixed_html   \* the markup the first apply_fixes returned

vars == <<pc, raw, xsoup, runs, chunks, prevChunks, issues, soup, k, calls,
          raised, pre, page_url, fixed_html>>

---------------------------------------------------------------------------
(* Bounds of the explored input space *)

\* body blocks per document
MaxBody == 2
\* heading chunks per chunk list of the audit-only specification
MaxHeadings == 3

---------------------------------------------------------------------------
(* Strings *)

SP == " "

RECURSIVE LStrip(_)
LStrip(s) == IF s # <<>> /\ Head(s) = SP THEN LStrip(Tail(s)) ELSE s

RECURSIVE RStrip(_)
RStrip(s) ==
    IF s # <<>> /\ s[Len(s)] = SP THEN RStrip(SubSeq(s, 1, Len(s) - 1)) ELSE s

\* str.strip()
Strip(s) == RStrip(LStrip(s))

\* str.lower() and str.title() on the vocabulary of the model
LowerTable ==
    [Click |-> "click", Here |-> "here", Read |-> "read", More |-> "more",
     Learn |-> "learn", Pricing |-> "pricing", Docs |-> "docs",
     Link |-> "link", NOOPENER |-> "noopener", HTTP |-> "http"]

CapTable ==
    [click |-> "Click", here |-> "Here", read |-> "Read", more |-> "More",
     learn |-> "Learn", pricing |-> "Pricing", docs |-> "Docs",
     link |-> "Link"]

LowerAtom(a) == IF a \in DOMAIN LowerTable THEN LowerTable[a] ELSE a
CapAtom(a) == IF a \in DOMAIN CapTable THEN CapTable[a] ELSE a
IsAlpha(a) == a \in DOMAIN LowerTable \/ a \in DOMAIN CapTable

Lower(s) == [i \in 1..Len(s) |-> LowerAtom(s[i])]

\* str.title(): a letter run starts with a capital and continues in lower case
Title(s) ==
    [i \in 1..Len(s) |->
        IF ~IsAlpha(s[i]) THEN s[i]
        ELSE IF i = 1 \/ ~IsAlpha(s[i - 1]) THEN CapAtom(LowerAtom(s[i]))
        ELSE LowerAtom(s[i])]

\* str.replace(old, new) for a one-atom old and new
Replace(s, old, new) == [i \in 1..Len(s) |-> IF s[i] = old THEN new ELSE s[i]]

\* sep.join(parts)
RECURSIVE Join(_, _)
Join(sep, parts) ==
    IF parts = <<>> THEN <<>>
    ELSE IF Len(parts) = 1 THEN parts[1]
    ELSE parts[1] \o sep \o Join(sep, Tail(parts))

\* index of the first / last occurrence of atom a in s, 0 when there is none
FirstIndex(s, a) ==
    IF \E i \in 1..Len(s) : s[i] = a
    THEN CHOOSE i \in 1..Len(s) : s[i] = a /\ \A j \in 1..(i - 1) : s[j] # a
    ELSE 0

LastIndex(s, a) ==
    IF \E i \in 1..Len(s) : s[i] = a
    THEN CHOOSE i \in 1..Len(s) : s[i] = a /\ \A j \in (i + 1)..Len(s) : s[j] # a
    ELSE 0

\* the part of s before index n (all of s when n = 0), and the part after it
\* (nothing when n = 0)
Before(s, n) == IF n = 0 THEN s ELSE SubSeq(s, 1, n - 1)
After(s, n) == IF n = 0 THEN <<>> ELSE SubSeq(s, n + 1, Len(s))

\* s.split(a)[-1] and s.split(a)[0]
AfterLast(s, a) == SubSeq(s, LastIndex(s, a) + 1, Len(s))
BeforeFirst(s, a) == Before(s, FirstIndex(s, a))
\* what follows the first a in s; nothing when s holds no a
AfterFirst(s, a) == After(s, FirstIndex(s, a))

\* s.split(a)
RECURSIVE Split(_, _)
Split(s, a) ==
    LET SplitAt(n) == IF n = 0 THEN <<s>> ELSE <<Before(s, n)>> \o Split(After(s, n), a)
    IN  SplitAt(FirstIndex(s, a))

\* s.split(): the whitespace-separated tokens of s
RECURSIVE Tokens(_)
Tokens(s) ==
    LET TokensAt(t, n) == IF n = 0 THEN <<t>> ELSE <<Before(t, n)>> \o Tokens(After(t, n))
        TokensOf(t) == IF t = <<>> THEN <<>> ELSE TokensAt(t, FirstIndex(t, SP))
    IN  TokensOf(LStrip(s))

\* s.startswith(p)
StartsWith(s, p) == Len(s) >= Len(p) /\ SubSeq(s, 1, Len(p)) = p

\* a or b: the first truthy (non-empty) string
Or(a, b) == IF a # <<>> THEN a ELSE b

\* len(str): characters
RECURSIVE StrLen(_)
StrLen(s) == IF s = <<>> THEN 0 ELSE Len(Head(s)) + StrLen(Tail(s))

Range(s) == {s[i] : i \in 1..Len(s)}

First(s) == IF s = <<>> THEN 0 ELSE s[1]

IndexIn(s, x) == CHOOSE n \in 1..Len(s) : s[n] = x

Without(s, x) == SelectSeq(s, LAMBDA y : y # x)

InsertAt(s, pos, x) == SubSeq(s, 1, pos - 1) \o <<x>> \o SubSeq(s, pos, Len(s))

---------------------------------------------------------------------------
(* The tree: bs4's Tag / NavigableString objects in an arena *)

NoAttrs == [x \in {} |-> <<>>]

\* nested description of a subtree, as the parser reads it from the markup
E(tag, attrs, kids) == [tag |-> tag, attrs |-> attrs, text |-> <<>>, kids |-> kids]
T(s) == [tag |-> "#text", attrs |-> NoAttrs, text |-> s, kids |-> <<>>]

\* relStr: the rel attribute holds a str assigned by the fixer; the parser
\* stores rel as a list of tokens (bs4 multi-valued attribute)
NodeRec(tag, attrs, text, parent) ==
    [tag |-> tag, attrs |-> attrs, text |-> text, kids |-> <<>>,
     parent |-> parent, relStr |-> FALSE]

\* the BeautifulSoup object: a Tag named "[document]" without parent
EmptySoup == <<NodeRec("[document]", NoAttrs, <<>>, 0)>>

RECURSIVE Build(_, _, _)
RECURSIVE BuildAll(_, _, _)
Build(t, p, x) ==
    BuildAll(Append([t EXCEPT ![p].kids = Append(@, Len(t) + 1)],
                    NodeRec(x.tag, x.attrs, x.text, p)),
             Len(t) + 1, x.kids)
BuildAll(t, p, xs) ==
    IF xs = <<>> THEN t ELSE BuildAll(Build(t, p, Head(xs)), p, Tail(xs))

IsTag(t, i) == t[i].tag # "#text"

\* Tag.descendants: document order (pre-order), i itself excluded
RECURSIVE DescOfSeq(_, _)
DescOfSeq(t, ks) ==
    IF ks = <<>> THEN <<>>
    ELSE <<Head(ks)>> \o DescOfSeq(t, t[Head(ks)].kids) \o DescOfSeq(t, Tail(ks))

Desc(t, i) == DescOfSeq(t, t[i].kids)

\* Tag.find_all(names) / Tag.find(names); find gives 0 for None
find_all(t, i, tags) == SelectSeq(Desc(t, i), LAMBDA j : t[j].tag \in tags)
find_all_tags(t, i) == SelectSeq(Desc(t, i), LAMBDA j : IsTag(t, j))
find(t, i, tags) == First(find_all(t, i, tags))

\* Tag.has_attr(name), and (Tag.get(name) or "")
Has(t, i, name) == name \in DOMAIN t[i].attrs
Get(t, i, name) == IF Has(t, i, name) THEN t[i].attrs[name] ELSE <<>>

\* Tag.get("rel") or []: the token list, or the str the fixer assigned
GetRel(t, i) ==
    IF ~Has(t, i, "rel") THEN <<>>
    ELSE IF t[i].relStr THEN <<t[i].attrs["rel"]>>
    ELSE Tokens(t[i].attrs["rel"])

\* find_attr that never finds the element
find_attr_none(t, i, tags, name, value) == 0

\* Tag.find(tags, attrs={name: value}) and attrs={name: True}
find_attr(t, i, tags, name, value) ==
    First(SelectSeq(find_all(t, i, tags),
                    LAMBDA j : Has(t, j, name) /\ t[j].attrs[name] = value))
find_has(t, i, tags, name) ==
    First(SelectSeq(find_all(t, i, tags), LAMBDA j : Has(t, j, name)))

\* the strings get_text() joins: text nodes below i, those directly inside
\* script, style and template left out (bs4 types them Script, Stylesheet,
\* TemplateString, which get_text skips), each stripped, empty ones dropped
TextPieces(t, i) ==
    LET StripAll(ids) == [n \in 1..Len(ids) |-> Strip(t[ids[n]].text)]
    IN  StripAll(SelectSeq(Desc(t, i),
            LAMBDA j : /\ ~IsTag(t, j)
                       /\ t[t[j].parent].tag \notin {"script", "style", "template"}
                       /\ Strip(t[j].text) # <<>>))

\* Tag.get_text(sep, strip=True)
get_text(t, i, sep) == Join(sep, TextPieces(t, i))

\* Tag.string: the single NavigableString below i, 0 (None) otherwise
RECURSIVE StringOf(_, _)
StringOf(t, i) ==
    IF Len(t[i].kids) # 1 THEN 0
    ELSE IF IsTag(t, t[i].kids[1]) THEN StringOf(t, t[i].kids[1])
    ELSE t[i].kids[1]

\* PageElement.extract(): j leaves its parent and keeps its own subtree
Extract(t, j) ==
    IF t[j].parent = 0 THEN t
    ELSE [t EXCEPT ![t[j].parent].kids = Without(@, j), ![j].parent = 0]

\* soup.new_tag(...) followed by parent.insert(pos, tag): pos counts from 0
InsertNew(t, p, pos, rec) ==
    Append([t EXCEPT ![p].kids = InsertAt(@, pos + 1, Len(t) + 1)],
           [rec EXCEPT !.parent = p])

\* soup.new_tag(...) followed by parent.append(tag)
AppendNew(t, p, rec) == InsertNew(t, p, Len(t[p].kids), rec)

\* el.insert_before(new)
InsertBefore(t, el, rec) ==
    InsertNew(t, t[el].parent, IndexIn(t[t[el].parent].kids, el) - 1, rec)

\* el.wrap(new): new takes el's place and el becomes its only child
Wrap(t, el, rec) ==
    [Append(t, [rec EXCEPT !.parent = t[el].parent, !.kids = <<el>>])
        EXCEPT ![t[el].parent].kids =
                   [n \in 1..Len(@) |-> IF @[n] = el THEN Len(t) + 1 ELSE @[n]],
               ![el].parent = Len(t) + 1]

\* Tag.string = s: clear() drops every child, then one new string is appended
SetString(t, i, s) ==
    [n \in 1..Len(t) |->
        IF t[n].parent = i THEN [t[n] EXCEPT !.parent = 0]
        ELSE IF n = i THEN [t[n] EXCEPT !.kids = <<Len(t) + 1>>]
        ELSE t[n]]
    \o <<NodeRec("#text", NoAttrs, s, i)>>

\* Tag[name] = value, and Tag.name = tag
SetAttr(t, i, name, v) == [t EXCEPT ![i].attrs = (name :> v) @@ @]
Rename(t, i, tag) == [t EXCEPT ![i].tag = tag]

RECURSIVE SetAttrAll(_, _, _, _)
SetAttrAll(t, els, name, v) ==
    IF els = <<>> THEN t ELSE SetAttrAll(SetAttr(t, Head(els), name, v), Tail(els), name, v)

\* str(tag): the markup of the subtree at i, nested as the parser reads it
RECURSIVE Markup(_, _)
Markup(t, i) ==
    [tag |-> t[i].tag, attrs |-> t[i].attrs, text |-> t[i].text,
     kids |-> [n \in 1..Len(t[i].kids) |-> Markup(t, t[i].kids[n])]]

\* the nodes that are part of the document
InTree(t) == {1} \cup Range(Desc(t, 1))

---------------------------------------------------------------------------
(* a11y.py: chunk extraction *)

\* hop limit of _css_path
MaxHops == 12
\* text length from which a div counts as a content block
DivBlockLen == 120
\* text length from which a content block is chunked
SectionLen == 60

\* direct children of p named like el: el.parent.find_all(el.name, recursive=False)
SameTagSiblings(t, el) ==
    SelectSeq(t[t[el].parent].kids, LAMBDA j : t[j].tag = t[el].tag)

\* _nth_of_type answering 1 for every element
nth_of_type_first(t, el) == 1

nth_of_type(t, el) ==
    IF t[el].parent = 0 THEN 1 ELSE IndexIn(SameTagSiblings(t, el), el)

\* one segment per hop from el towards the root, root first; nth = 0 stands
\* for a segment without :nth-of-type
RECURSIVE PathUp(_, _, _)
PathUp(t, cur, hops) ==
    IF cur = 0 \/ hops >= MaxHops THEN <<>>
    ELSE PathUp(t, t[cur].parent, hops + 1)
         \o <<[tag |-> t[cur].tag,
               nth |-> IF t[cur].parent # 0 /\ Len(SameTagSiblings(t, cur)) > 1
                       THEN nth_of_type(t, cur) ELSE 0]>>

css_path(t, el) == PathUp(t, el, 0)

RECURSIVE ExtractAll(_, _)
ExtractAll(t, js) ==
    IF js = <<>> THEN t ELSE ExtractAll(Extract(t, Head(js)), Tail(js))

\* _text_of: removes every script, style and noscript below el from the
\* tree, then reads the text; gives the tree it leaves and the text
text_of(t, el) ==
    LET TextAfter(t1) == [t |-> t1, text |-> get_text(t1, el, <<SP>>)]
    IN  TextAfter(ExtractAll(t, find_all(t, el, {"script", "style", "noscript"})))

\* _is_visible_text_block: gives the tree it leaves and the verdict
is_visible_text_block(t, el) ==
    LET BlockOf(r) == [t |-> r.t, block |-> StrLen(r.text) >= DivBlockLen]
    IN  IF t[el].tag \in {"p", "li", "article", "section"} THEN [t |-> t, block |-> TRUE]
        ELSE IF t[el].tag = "div" THEN BlockOf(text_of(t, el))
        ELSE [t |-> t, block |-> FALSE]

ImgSrc(t, img) ==
    Or(Get(t, img, "src"), Or(Get(t, img, "data-src"),
       Or(Get(t, img, "data-original"), Get(t, img, "data-lazy"))))

\* a chunk; node is the element it was taken from (for stating properties
\* only: no operation reads it)
Chunk(role, path, text, attrs, node) ==
    [role |-> role, path |-> path, text |-> text, attrs |-> attrs, node |-> node]

ImgChunk(t, img) ==
    Chunk("img", css_path(t, img), <<>>,
          [src |-> Strip(ImgSrc(t, img)), alt |-> Strip(Get(t, img, "alt")),
           width |-> Strip(Get(t, img, "width")),
           height |-> Strip(Get(t, img, "height"))], img)

ImgChunks(t) ==
    LET ChunksOf(imgs) == [n \in 1..Len(imgs) |-> ImgChunk(t, imgs[n])]
    IN  ChunksOf(find_all(t, 1, {"img"}))

HTag(level) == <<"h1", "h2", "h3", "h4", "h5", "h6">>[level]

\* the loops of extract_chunks; st = [t |-> tree, cs |-> chunks so far],
\* r = what _text_of gave for the element
RECURSIVE HeadingLoop(_, _, _)
HeadingLoop(st, hs, level) ==
    LET HeadingStep(h, r) ==
            [t |-> r.t,
             cs |-> Append(st.cs, Chunk("heading", css_path(st.t, h), r.text,
                                        [tag |-> HTag(level)], h))]
    IN  IF hs = <<>> THEN st
        ELSE HeadingLoop(HeadingStep(Head(hs), text_of(st.t, Head(hs))), Tail(hs), level)

\* for level in range(1,7): for h in soup.find_all(f"h{level}")
RECURSIVE HeadingPass(_, _)
HeadingPass(st, levels) ==
    IF levels = <<>> THEN st
    ELSE HeadingPass(HeadingLoop(st, find_all(st.t, 1, {HTag(Head(levels))}),
                                 Head(levels)),
                     Tail(levels))

RECURSIVE LinkLoop(_, _)
LinkLoop(st, as) ==
    LET LinkAttrs(a) ==
            [href |-> Strip(Get(st.t, a, "href")),
             aria_label |-> Strip(Get(st.t, a, "aria-label")),
             title |-> Strip(Get(st.t, a, "title")),
             target |-> Strip(Get(st.t, a, "target")),
             rel |-> GetRel(st.t, a)]
        LinkStep(a, r) ==
            [t |-> r.t,
             cs |-> Append(st.cs, Chunk("link", css_path(st.t, a), r.text,
                                        LinkAttrs(a), a))]
    IN  IF as = <<>> THEN st
        ELSE LinkLoop(LinkStep(Head(as), text_of(st.t, Head(as))), Tail(as))

RECURSIVE ControlLoop(_, _)
ControlLoop(st, cs) ==
    LET ControlAttrs(c) ==
            [id |-> Strip(Get(st.t, c, "id")),
             name |-> Strip(Get(st.t, c, "name")),
             type |-> Lower(Strip(Get(st.t, c, "type"))),
             aria_label |-> Strip(Get(st.t, c, "aria-label")),
             aria_labelledby |-> Strip(Get(st.t, c, "aria-labelledby")),
             placeholder |-> Strip(Get(st.t, c, "placeholder")),
             tag |-> st.t[c].tag]
        ControlStep(c, r) ==
            [t |-> r.t,
             cs |-> Append(st.cs, Chunk("control", css_path(st.t, c), r.text,
                                        ControlAttrs(c), c))]
    IN  IF cs = <<>> THEN st
        ELSE ControlLoop(ControlStep(Head(cs), text_of(st.t, Head(cs))), Tail(cs))

IframeChunks(t) ==
    LET FrameChunksOf(frs) ==
            [n \in 1..Len(frs) |->
                Chunk("iframe", css_path(t, frs[n]), <<>>,
                      [title |-> Strip(Get(t, frs[n], "title"))], frs[n])]
    IN  FrameChunksOf(find_all(t, 1, {"iframe"}))

RECURSIVE SvgLoop(_, _)
SvgLoop(st, ss) ==
    LET SvgStep(g, r) ==
            [t |-> r.t,
             cs |-> Append(st.cs, Chunk("svg", css_path(st.t, g), r.text, NoAttrs, g))]
    IN  IF ss = <<>> THEN st
        ELSE SvgLoop(SvgStep(Head(ss), text_of(st.t, Head(ss))), Tail(ss))

\* for el in soup.find_all(True): the list is taken before the loop starts;
\* b = what _is_visible_text_block gave for el, r = what _text_of gave
RECURSIVE SectionLoop(_, _)
SectionLoop(st, els) ==
    LET SectionEmit(el, r) ==
            IF StrLen(r.text) < SectionLen THEN [st EXCEPT !.t = r.t]
            ELSE [t |-> r.t,
                  cs |-> Append(st.cs, Chunk("section", css_path(r.t, el), r.text,
                                             [tag |-> st.t[el].tag], el))]
        SectionStep(el, b) ==
            IF ~b.block THEN [st EXCEPT !.t = b.t]
            ELSE SectionEmit(el, text_of(b.t, el))
    IN  IF els = <<>> THEN st
        ELSE SectionLoop(SectionStep(Head(els), is_visible_text_block(st.t, Head(els))),
                         Tail(els))

\* soup.find("a", string=re.compile(r"skip", re.I)): an anchor whose .string
\* holds an atom the pattern finds
HasSkipText(t) ==
    \E a \in Range(find_all(t, 1, {"a"})) :
        /\ StringOf(t, a) # 0
        /\ Range(t[StringOf(t, a)].text) \cap {"Skip", "skip"} # {}

\* the synthetic document chunk
DocumentChunk(t) ==
    LET ChunkOf(head, html_el) ==
            Chunk("document",
                  <<[tag |-> "html", nth |-> 0], [tag |-> "head", nth |-> 0]>>,
                  <<>>,
                  [has_title |-> head # 0 /\ find(t, head, {"title"}) # 0,
                   has_viewport |-> head # 0
                        /\ find_attr(t, head, {"meta"}, "name", <<"viewport">>) # 0,
                   has_charset |-> head # 0 /\ find_has(t, head, {"meta"}, "charset") # 0,
                   html_lang |-> IF html_el # 0 /\ Get(t, html_el, "lang") # <<>>
                                 THEN Strip(Get(t, html_el, "lang")) ELSE <<>>,
                   has_skiplink |-> find_attr(t, 1, {"a"}, "href", <<"#", "main">>) # 0
                                    \/ HasSkipText(t),
                   has_main |-> find(t, 1, {"main"}) # 0,
                   has_nav |-> find(t, 1, {"nav"}) # 0],
                  0)
    IN  ChunkOf(find(t, 1, {"head"}), find(t, 1, {"html"}))

\* extract_chunks on the tree the parser built: the tree as extraction
\* leaves it, and the chunks
extract_chunks(t0) ==
    LET LinkPass(st) == LinkLoop(st, find_all(st.t, 1, {"a"}))
        ControlPass(st) ==
            ControlLoop(st, find_all(st.t, 1, {"input", "select", "textarea", "button"}))
        IframePass(st) == [st EXCEPT !.cs = @ \o IframeChunks(st.t)]
        SvgPass(st) == SvgLoop(st, find_all(st.t, 1, {"svg"}))
        SectionPass(st) == SectionLoop(st, find_all_tags(st.t, 1))
        WithDocument(st) == [t |-> st.t, cs |-> Append(st.cs, DocumentChunk(st.t))]
    IN  WithDocument(SectionPass(SvgPass(IframePass(ControlPass(LinkPass(
            HeadingPass([t |-> t0, cs |-> ImgChunks(t0)], <<1, 2, 3, 4, 5, 6>>)))))))

---------------------------------------------------------------------------
(* a11y.py: audit *)

_VAGUE_LINK_TEXT ==
    {<<"click", SP, "here">>, <<"read", SP, "more">>, <<"learn", SP, "more">>,
     <<"more">>, <<"here">>, <<"details">>, <<"link">>, <<"this">>, <<"go">>,
     <<"open">>, <<"continue">>}

NoDetails == [x \in {} |-> <<>>]

Issue(kind, sev, details, c) ==
    [kind |-> kind, sev |-> sev, details |-> details, chunk |-> c]

\* one issue without details per chunk of sel
IssuesOf(sel, kind, sev) ==
    [n \in 1..Len(sel) |-> Issue(kind, sev, NoDetails, sel[n])]

\* int(tag[1]) if len(tag)==2 and tag[1].isdigit() else 0
TagDigit ==
    [h0 |-> 0, h1 |-> 1, h2 |-> 2, h3 |-> 3, h4 |-> 4, h5 |-> 5, h6 |-> 6,
     h7 |-> 7, h8 |-> 8, h9 |-> 9]
ParseLevel(tag) == IF tag \in DOMAIN TagDigit THEN TagDigit[tag] ELSE 0

OfRole(cs, role) == SelectSeq(cs, LAMBDA c : c.role = role)

AltIssues(cs) ==
    LET AltOf(sel) ==
            [n \in 1..Len(sel) |->
                Issue("MISSING_ALT", "MEDIUM", [reason |-> "Image missing alt"], sel[n])]
    IN  AltOf(SelectSeq(OfRole(cs, "img"), LAMBDA c : Strip(c.attrs.alt) = <<>>))

\* HeadingJump with the threshold one level lower: every increase is a jump
HeadingJumpLoose(c, lvl, last) ==
    IF last # 0 /\ lvl # 0 /\ (lvl - last) >= 1
    THEN <<Issue("BAD_HEADING_ORDER", "LOW", [prev |-> last, curr |-> lvl], c)>>
    ELSE <<>>

\* the heading at the front of the scan, lvl being its parsed level
HeadingJump(c, lvl, last) ==
    IF last # 0 /\ lvl # 0 /\ (lvl - last) > 1
    THEN <<Issue("BAD_HEADING_ORDER", "LOW", [prev |-> last, curr |-> lvl], c)>>
    ELSE <<>>

\* the heading scan: last is the level of the last heading whose level parsed
RECURSIVE HeadingScan(_, _)
HeadingScan(hs, last) ==
    IF hs = <<>> THEN <<>>
    ELSE HeadingJump(Head(hs), ParseLevel(Head(hs).attrs.tag), last)
         \o HeadingScan(Tail(hs),
                        IF ParseLevel(Head(hs).attrs.tag) # 0
                        THEN ParseLevel(Head(hs).attrs.tag) ELSE last)

HeadingIssues(cs) == HeadingScan(OfRole(cs, "heading"), 0)

PoorLinkIssues(cs) ==
    LET PoorOf(sel) ==
            [n \in 1..Len(sel) |->
                Issue("POOR_LINK_TEXT", "LOW", [text |-> sel[n].text], sel[n])]
    IN  PoorOf(SelectSeq(OfRole(cs, "link"),
                     LAMBDA c : Lower(Strip(c.text)) \in _VAGUE_LINK_TEXT))

LinkNoNameIssues(cs) ==
    IssuesOf(SelectSeq(OfRole(cs, "link"),
                 LAMBDA c : Or(Strip(c.text), Or(Strip(c.attrs.aria_label),
                                                 Strip(c.attrs.title))) = <<>>),
             "LINK_NO_NAME", "MEDIUM")

LowerAll(toks) == [n \in 1..Len(toks) |-> Lower(toks[n])]

BlankTargetIssues(cs) ==
    IssuesOf(SelectSeq(OfRole(cs, "link"),
                 LAMBDA c : /\ c.attrs.target = <<"_blank">>
                            /\ \/ <<"noopener">> \notin Range(LowerAll(c.attrs.rel))
                               \/ <<"noreferrer">> \notin Range(LowerAll(c.attrs.rel))),
             "BLANK_TARGET_NO_REL", "LOW")

ControlIssues(cs) ==
    LET UnlabelledOf(sel) ==
            [n \in 1..Len(sel) |->
                Issue("CONTROL_NO_LABEL", "MEDIUM", [tag |-> sel[n].attrs.tag], sel[n])]
    IN  UnlabelledOf(SelectSeq(OfRole(cs, "control"),
               LAMBDA c : IF c.attrs.tag = "button" THEN Strip(c.text) = <<>>
                          ELSE Or(c.attrs.aria_label,
                                  Or(c.attrs.aria_labelledby, c.attrs.id)) = <<>>))

IframeIssues(cs) ==
    IssuesOf(SelectSeq(OfRole(cs, "iframe"), LAMBDA c : Strip(c.attrs.title) = <<>>),
             "IFRAME_NO_TITLE", "LOW")

\* SvgIssues without the selection of the svg chunks
SvgIssuesAnyRole(cs) ==
    IssuesOf(SelectSeq(cs, LAMBDA c : Strip(c.text) = <<>>), "SVG_NO_NAME", "LOW")

SvgIssues(cs) ==
    IssuesOf(SelectSeq(OfRole(cs, "svg"), LAMBDA c : Strip(c.text) = <<>>),
             "SVG_NO_NAME", "LOW")

ActsButtonIssues(cs) ==
    IssuesOf(SelectSeq(OfRole(cs, "link"), LAMBDA c : Strip(c.attrs.href) = <<>>),
             "A_ACTS_BUTTON", "LOW")

\* DocIssuesOf with one MISSING_LANDMARKS issue for main and nav together
DocIssuesOfMerged(c) ==
       (IF ~c.attrs.has_title
        THEN <<Issue("MISSING_TITLE", "MEDIUM", NoDetails, c)>> ELSE <<>>)
    \o (IF ~c.attrs.has_viewport
        THEN <<Issue("MISSING_VIEWPORT", "LOW", NoDetails, c)>> ELSE <<>>)
    \o (IF ~c.attrs.has_charset
        THEN <<Issue("MISSING_CHARSET", "LOW", NoDetails, c)>> ELSE <<>>)
    \o (IF Strip(c.attrs.html_lang) = <<>>
        THEN <<Issue("MISSING_LANG", "MEDIUM", NoDetails, c)>> ELSE <<>>)
    \o (IF ~c.attrs.has_skiplink
        THEN <<Issue("MISSING_SKIPLINK", "LOW", NoDetails, c)>> ELSE <<>>)
    \o (IF ~c.attrs.has_main \/ ~c.attrs.has_nav
        THEN <<Issue("MISSING_LANDMARKS", "LOW",
                     [missing |-> IF ~c.attrs.has_main THEN "main" ELSE "nav"], c)>>
        ELSE <<>>)

\* the issues of one document chunk, in the order of the if statements
DocIssuesOf(c) ==
       (IF ~c.attrs.has_title
        THEN <<Issue("MISSING_TITLE", "MEDIUM", NoDetails, c)>> ELSE <<>>)
    \o (IF ~c.attrs.has_viewport
        THEN <<Issue("MISSING_VIEWPORT", "LOW", NoDetails, c)>> ELSE <<>>)
    \o (IF ~c.attrs.has_charset
        THEN <<Issue("MISSING_CHARSET", "LOW", NoDetails, c)>> ELSE <<>>)
    \o (IF Strip(c.attrs.html_lang) = <<>>
        THEN <<Issue("MISSING_LANG", "MEDIUM", NoDetails, c)>> ELSE <<>>)
    \o (IF ~c.attrs.has_skiplink
        THEN <<Issue("MISSING_SKIPLINK", "LOW", NoDetails, c)>> ELSE <<>>)
    \o (IF ~c.attrs.has_main
        THEN <<Issue("MISSING_LANDMARKS", "LOW", [missing |-> "main"], c)>> ELSE <<>>)
    \o (IF ~c.attrs.has_nav
        THEN <<Issue("MISSING_LANDMARKS", "LOW", [missing |-> "nav"], c)>> ELSE <<>>)

RECURSIVE DocIssues(_)
DocIssues(ds) == IF ds = <<>> THEN <<>> ELSE DocIssuesOf(Head(ds)) \o DocIssues(Tail(ds))

audit(cs) ==
    AltIssues(cs) \o HeadingIssues(cs) \o PoorLinkIssues(cs) \o LinkNoNameIssues(cs)
    \o BlankTargetIssues(cs) \o ControlIssues(cs) \o IframeIssues(cs) \o SvgIssues(cs)
    \o ActsButtonIssues(cs) \o DocIssues(OfRole(cs, "document"))

---------------------------------------------------------------------------
(* fixer.py: the text-generation collaborator *)

\* what one call of generate_alt meets: no API key, the SDK import or client
\* construction failing, the request raising, an empty answer, an answer
Outcomes == {"no_key", "sdk_error", "raises", "empty", "text"}

\* the answer of the collaborator, stripped
AnswerText == <<"Photo">>

\* generate_alt without the except clause around the request
generate_alt_uncaught(ctx, outcome) ==
    IF outcome \in {"no_key", "sdk_error"} THEN [value |-> <<"Image">>, raised |-> FALSE]
    ELSE IF outcome = "raises" THEN [value |-> <<>>, raised |-> TRUE]
    ELSE IF outcome = "empty" THEN [value |-> <<"Image">>, raised |-> FALSE]
    ELSE [value |-> AnswerText, raised |-> FALSE]

\* generate_alt: the value returned, and whether an exception leaves it
generate_alt(ctx, outcome) ==
    IF outcome \in {"no_key", "sdk_error"} THEN [value |-> <<"Image">>, raised |-> FALSE]
    ELSE IF outcome = "raises" THEN [value |-> <<"Image">>, raised |-> FALSE]
    ELSE IF outcome = "empty" THEN [value |-> <<"Image">>, raised |-> FALSE]
    ELSE [value |-> AnswerText, raised |-> FALSE]

---------------------------------------------------------------------------
(* fixer.py: apply_fixes, one operator per branch of the loop body *)

\* 1) MISSING_ALT: the images the branch assigns to; "candidates = [img];
\* break" keeps the first image of that src
AltCandidates(t, attrs) ==
    LET FirstOnly(hit) == IF hit = <<>> THEN <<>> ELSE <<hit[1]>>
        CandidatesOf(target_src, imgs) ==
            IF target_src # <<>>
            THEN FirstOnly(SelectSeq(imgs, LAMBDA i : Strip(ImgSrc(t, i)) = target_src))
            ELSE SelectSeq(imgs, LAMBDA i : Strip(Get(t, i, "alt")) = <<>>)
    IN  CandidatesOf(Strip(attrs.src), find_all(t, 1, {"img"}))

ImgContext(t, img) ==
    IF t[img].parent # 0 THEN get_text(t, t[img].parent, <<SP>>) ELSE <<>>

\* img["alt"] = generate_alt(ctx) or "Image", g being what generate_alt gave;
\* outs: candidate |-> outcome of its generate_alt call
RECURSIVE FixMissingAltLoop(_, _, _)
FixMissingAltLoop(r, cands, outs) ==
    LET AltStep(img, g) ==
            IF g.raised THEN [r EXCEPT !.raised = TRUE]
            ELSE [r EXCEPT !.t = SetAttr(r.t, img, "alt", Or(g.value, <<"Image">>))]
    IN  IF cands = <<>> \/ r.raised THEN r
        ELSE FixMissingAltLoop(
                 AltStep(Head(cands),
                         generate_alt(ImgContext(r.t, Head(cands)), outs[Head(cands)])),
                 Tail(cands), outs)

FixMissingAlt(t, attrs, outs) ==
    FixMissingAltLoop([t |-> t, raised |-> FALSE], AltCandidates(t, attrs), outs)

\* 2) BAD_HEADING_ORDER; h.name = new_tag; break
FixHeadingOrder(t, attrs, text) ==
    LET RenameFirst(hit, tag) == IF hit = <<>> THEN t ELSE Rename(t, hit[1], tag)
    IN  IF ParseLevel(attrs.tag) > 2 /\ attrs.tag \in {"h3", "h4", "h5", "h6"}
        THEN RenameFirst(SelectSeq(find_all(t, 1, {attrs.tag}),
                                   LAMBDA h : get_text(t, h, <<>>) = text),
                         HTag(ParseLevel(attrs.tag) - 1))
        ELSE t

\* the label derived from the href: last "/" piece, query and fragment
\* cut, hyphens and underscores to spaces, title case
SlugLabel(href, dflt_slug, dflt) ==
    Or(Title(Strip(Replace(Replace(
           BeforeFirst(BeforeFirst(
               Or(IF "/" \in Range(href) THEN AfterLast(href, "/") ELSE href,
                  dflt_slug), "?"), "#"),
           "-", SP), "_", SP))),
       dflt)

find_links_by_text(t, txt) ==
    SelectSeq(find_all(t, 1, {"a"}), LAMBDA a : get_text(t, a, <<>>) = txt)

\* 3) POOR_LINK_TEXT
FixPoorLinkText(t, text) ==
    LET RelabelLink(a, label) ==
            IF label # <<>> THEN SetString(t, a, label)
            ELSE SetString(t, a,
                    SlugLabel(Strip(Get(t, a, "href")), <<"learn", "-", "more">>,
                              <<"Learn", SP, "More">>))
        RelabelFirst(hit) ==
            IF hit = <<>> THEN t ELSE RelabelLink(hit[1], Get(t, hit[1], "aria-label"))
    IN  RelabelFirst(find_links_by_text(t, text))

\* 4) LINK_NO_NAME
FixLinkNoName(t, attrs) ==
    LET NameLink(a, label) ==
            SetString(t, a,
                IF label # <<>> THEN label
                ELSE SlugLabel(Strip(Get(t, a, "href")), <<"link">>, <<"Link">>))
        NameFirst(hit) ==
            IF hit = <<>> THEN t
            ELSE NameLink(hit[1], Or(Get(t, hit[1], "aria-label"), Get(t, hit[1], "title")))
    IN  NameFirst(SelectSeq(find_all(t, 1, {"a"}),
                      LAMBDA a : /\ Strip(Get(t, a, "href")) = Strip(attrs.href)
                                 /\ get_text(t, a, <<>>) = <<>>))

\* sorted(): strings compare atom by atom in the order of their characters
AtomOrder == <<SP, "external", "nofollow", "noopener", "noreferrer">>
AtomRank(a) == IF a \in Range(AtomOrder) THEN IndexIn(AtomOrder, a) ELSE 0

RECURSIVE StrLess(_, _)
StrLess(a, b) ==
    IF b = <<>> THEN FALSE
    ELSE IF a = <<>> THEN TRUE
    ELSE IF Head(a) = Head(b) THEN StrLess(Tail(a), Tail(b))
    ELSE AtomRank(Head(a)) < AtomRank(Head(b))

RECURSIVE Sorted(_)
Sorted(S) ==
    LET Least == CHOOSE x \in S : \A y \in S \ {x} : StrLess(x, y)
    IN  IF S = {} THEN <<>> ELSE <<Least>> \o Sorted(S \ {Least})

\* 5) BLANK_TARGET_NO_REL; a["rel"] = " ".join(sorted(relset)); break
FixBlankTarget(t, attrs) ==
    LET SetRel(a, relset) ==
            [SetAttr(t, a, "rel", Join(<<SP>>, Sorted(relset))) EXCEPT ![a].relStr = TRUE]
        RelFirst(hit) ==
            IF hit = <<>> THEN t
            ELSE SetRel(hit[1], Range(LowerAll(GetRel(t, hit[1])))
                                    \cup {<<"noopener">>, <<"noreferrer">>})
    IN  RelFirst(SelectSeq(find_all(t, 1, {"a"}),
                     LAMBDA a : /\ Strip(Get(t, a, "href")) = Strip(attrs.href)
                                /\ Get(t, a, "target") = <<"_blank">>))

\* fld_{abs(hash(label_text)) % 10_000_000}: a function of the label text
FieldId(label_text) == <<"fld_">> \o label_text

\* ControlTarget that settles on the first control of the tag when neither
\* id nor name tells one apart
ControlTargetAny(t, attrs) ==
    First(SelectSeq(find_all(t, 1, {"input", "select", "textarea", "button"}),
            LAMBDA el : t[el].tag = attrs.tag))

\* 6) CONTROL_NO_LABEL: the control the branch settles on, 0 for none
ControlTarget(t, attrs) ==
    First(SelectSeq(find_all(t, 1, {"input", "select", "textarea", "button"}),
            LAMBDA el : /\ t[el].tag = attrs.tag
                        /\ \/ attrs.id # <<>> /\ Has(t, el, "id")
                                              /\ t[el].attrs["id"] = attrs.id
                           \/ attrs.name # <<>> /\ Has(t, el, "name")
                                                /\ t[el].attrs["name"] = attrs.name))

\* lab = soup.new_tag("label"); lab["for"] = target["id"];
\* lab.string = label_text.strip(); target.insert_before(lab)
FixControlNoLabel(t, attrs) ==
    LET InsertLabel(t1, target, label_text) ==
            SetString(InsertBefore(t1, target,
                          NodeRec("label", "for" :> t1[target].attrs["id"], <<>>, 0)),
                      Len(t1) + 1, Strip(label_text))
        LabelField(target, label_text) ==
            InsertLabel(IF Get(t, target, "id") = <<>>
                        THEN SetAttr(t, target, "id", FieldId(label_text))
                        ELSE t,
                        target, label_text)
        LabelControl(target) ==
            IF target = 0 THEN t
            ELSE IF attrs.tag = "button"
                 THEN SetString(t, target, Or(get_text(t, target, <<>>), <<"Submit">>))
            ELSE LabelField(target,
                     Or(attrs.placeholder,
                        Or(IF t[target].parent # 0
                           THEN get_text(t, t[target].parent, <<SP>>) ELSE <<>>,
                           <<"Field">>)))
    IN  LabelControl(ControlTarget(t, attrs))

\* 7) IFRAME_NO_TITLE
FixIframeNoTitle(t) ==
    SetAttrAll(t, SelectSeq(find_all(t, 1, {"iframe"}),
                            LAMBDA fr : Strip(Get(t, fr, "title")) = <<>>),
               "title", <<"Embedded", SP, "content">>)

\* s[:60]: the longest run of leading atoms within 60 characters
RECURSIVE Prefix60(_, _)
Prefix60(s, room) ==
    IF s = <<>> \/ Len(Head(s)) > room THEN <<>>
    ELSE <<Head(s)>> \o Prefix60(Tail(s), room - Len(Head(s)))

\* 8) SVG_NO_NAME
RECURSIVE FixSvgLoop(_, _)
FixSvgLoop(t, svgs) ==
    LET NameSvg(g, txt) ==
            IF txt = <<>> THEN SetAttr(t, g, "aria-hidden", <<"true">>)
            ELSE SetAttr(SetAttr(t, g, "role", Or(Get(t, g, "role"), <<"img">>)),
                         g, "aria-label", Prefix60(txt, 60))
    IN  IF svgs = <<>> THEN t
        ELSE FixSvgLoop(NameSvg(Head(svgs), get_text(t, Head(svgs), <<>>)), Tail(svgs))

FixSvgNoName(t) == FixSvgLoop(t, find_all(t, 1, {"svg"}))

\* 9) A_ACTS_BUTTON; if not a.get_text(strip=True): a.string = "Button"
RECURSIVE FixActsButtonLoop(_, _)
FixActsButtonLoop(t, as) ==
    LET ButtonText(t1, a) ==
            IF get_text(t1, a, <<>>) = <<>> THEN SetString(t1, a, <<"Button">>) ELSE t1
        ButtonStep(a) ==
            IF Strip(Get(t, a, "href")) # <<>> THEN t
            ELSE ButtonText(Rename(t, a, "button"), a)
    IN  IF as = <<>> THEN t ELSE FixActsButtonLoop(ButtonStep(Head(as)), Tail(as))

FixActsButton(t) == FixActsButtonLoop(t, find_all(t, 1, {"a"}))

\* head / html / body = soup.find(x) or soup.new_tag(x), put into the soup
\* when it was not found: at the front (head, html) or at the end (body)
EnsureFront(t, tag) ==
    IF find(t, 1, {tag}) # 0 THEN t ELSE InsertNew(t, 1, 0, NodeRec(tag, NoAttrs, <<>>, 0))

EnsureBody(t) ==
    IF find(t, 1, {"body"}) # 0 THEN t ELSE AppendNew(t, 1, NodeRec("body", NoAttrs, <<>>, 0))

FixSkipLink(t) ==
    LET SkipStyle ==
            <<"position:absolute;left:-9999px;top:auto;width:1px;height:1px;overflow:hidden;">>
        SkipLinkAt(body) ==
            IF find_attr(t, body, {"a"}, "href", <<"#", "main">>) # 0 THEN t
            ELSE SetString(
                    InsertNew(t, body, 0,
                        NodeRec("a", ("href" :> <<"#", "main">>) @@ ("style" :> SkipStyle),
                                <<>>, 0)),
                    Len(t) + 1, <<"Skip", SP, "to", SP, "main", SP, "content">>)
    IN  SkipLinkAt(find(t, 1, {"body"}))

\* if miss == "main" and not soup.find("main")
AddMain(t, body, miss, first_div) ==
    IF miss = "main" /\ find(t, 1, {"main"}) = 0
    THEN IF first_div # 0
         THEN Wrap(t, first_div, NodeRec("main", "id" :> <<"main">>, <<>>, 0))
         ELSE InsertNew(t, body, 0, NodeRec("main", "id" :> <<"main">>, <<>>, 0))
    ELSE t

\* AddNav without the test of which landmark the issue names
AddNavAlways(t, body, miss) ==
    InsertNew(t, body, 0, NodeRec("nav", NoAttrs, <<>>, 0))

\* if miss == "nav" and not soup.find("nav")
AddNav(t, body, miss) ==
    IF miss = "nav" /\ find(t, 1, {"nav"}) = 0
    THEN InsertNew(t, body, 0, NodeRec("nav", NoAttrs, <<>>, 0))
    ELSE t

FixLandmarks(t, details) ==
    LET LandmarksAt(body, miss) ==
            AddNav(AddMain(t, body, miss, find(t, body, {"div"})), body, miss)
    IN  LandmarksAt(find(t, 1, {"body"}),
                    IF "missing" \in DOMAIN details THEN details.missing ELSE "")

\* 10) the document-level branch
FixDocument(t0, itype, details) ==
    LET DocumentAt(t, head, html_el) ==
            IF itype = "MISSING_TITLE"
            THEN IF find(t, head, {"title"}) # 0 THEN t
                 ELSE SetString(AppendNew(t, head, NodeRec("title", NoAttrs, <<>>, 0)),
                                Len(t) + 1, <<"Accessible", SP, "Page">>)
            ELSE IF itype = "MISSING_VIEWPORT"
            THEN IF find_attr(t, head, {"meta"}, "name", <<"viewport">>) # 0 THEN t
                 ELSE AppendNew(t, head,
                        NodeRec("meta", ("name" :> <<"viewport">>)
                                     @@ ("content" :> <<"width=device-width,", SP,
                                                        "initial-scale=1">>),
                                <<>>, 0))
            ELSE IF itype = "MISSING_CHARSET"
            THEN IF find_has(t, head, {"meta"}, "charset") # 0 THEN t
                 ELSE AppendNew(t, head, NodeRec("meta", "charset" :> <<"utf-8">>, <<>>, 0))
            ELSE IF itype = "MISSING_LANG"
            THEN IF Get(t, html_el, "lang") # <<>> THEN t
                 ELSE SetAttr(t, html_el, "lang", <<"en">>)
            ELSE IF itype = "MISSING_SKIPLINK" THEN FixSkipLink(EnsureBody(t))
            ELSE FixLandmarks(EnsureBody(t), details)
        DocumentIn(t) == DocumentAt(t, find(t, 1, {"head"}), find(t, 1, {"html"}))
    IN  DocumentIn(EnsureFront(EnsureFront(t0, "head"), "html"))

DocKinds ==
    {"MISSING_TITLE", "MISSING_VIEWPORT", "MISSING_CHARSET", "MISSING_LANG",
     "MISSING_SKIPLINK", "MISSING_LANDMARKS"}

\* the body of the loop "for (itype, _sev, details, chunk) in issues": the
\* tree it leaves, and whether an exception left it
ApplyIssue(t, iss, outs) ==
    LET NotRaised(t1) == [t |-> t1, raised |-> FALSE]
    IN  IF iss.kind = "MISSING_ALT" /\ iss.chunk.role = "img"
        THEN FixMissingAlt(t, iss.chunk.attrs, outs)
        ELSE IF iss.kind = "BAD_HEADING_ORDER" /\ iss.chunk.role = "heading"
        THEN NotRaised(FixHeadingOrder(t, iss.chunk.attrs, Strip(iss.chunk.text)))
        ELSE IF iss.kind = "POOR_LINK_TEXT" /\ iss.chunk.role = "link"
        THEN NotRaised(FixPoorLinkText(t, Strip(iss.chunk.text)))
        ELSE IF iss.kind = "LINK_NO_NAME" /\ iss.chunk.role = "link"
        THEN NotRaised(FixLinkNoName(t, iss.chunk.attrs))
        ELSE IF iss.kind = "BLANK_TARGET_NO_REL" /\ iss.chunk.role = "link"
        THEN NotRaised(FixBlankTarget(t, iss.chunk.attrs))
        ELSE IF iss.kind = "CONTROL_NO_LABEL" /\ iss.chunk.role = "control"
        THEN NotRaised(FixControlNoLabel(t, iss.chunk.attrs))
        ELSE IF iss.kind = "IFRAME_NO_TITLE" /\ iss.chunk.role = "iframe"
        THEN NotRaised(FixIframeNoTitle(t))
        ELSE IF iss.kind = "SVG_NO_NAME" /\ iss.chunk.role = "svg"
        THEN NotRaised(FixSvgNoName(t))
        ELSE IF iss.kind = "A_ACTS_BUTTON" /\ iss.chunk.role = "link"
        THEN NotRaised(FixActsButton(t))
        ELSE IF iss.kind \in DocKinds THEN NotRaised(FixDocument(t, iss.kind, iss.details))
        ELSE NotRaised(t)

---------------------------------------------------------------------------
(* fixer.py: URL normalisation; urllib.parse.urljoin as _abs_url calls it *)

\* atoms that are no letters or digits
PunctAtoms == {"/", "?", "#", ".", "..", ":", ",", SP, "-", "_"}

\* schemes urljoin resolves against a base (uses_relative, uses_netloc); the
\* empty scheme is one of them
RelativeSchemes == {"", "http", "https", "ftp", "file"}

\* urlparse(url, default_scheme): scheme, netloc, path, query, fragment;
\* leading whitespace of the url is dropped first.  The scheme is cut at
\* ":", then the fragment at "#", the query at "?", and after "//" the
\* netloc runs to the first "/"
UrlParse(url0, dflt) ==
    LET UrlParts(scheme, netloc, path, query, fragment) ==
            [scheme |-> scheme, netloc |-> netloc, path |-> path, query |-> query,
             fragment |-> fragment]
        ParseNetloc(scheme, r, query, fragment) ==
            UrlParts(scheme, BeforeFirst(r, "/"),
                     SubSeq(r, Len(BeforeFirst(r, "/")) + 1, Len(r)), query, fragment)
        ParseLoc(scheme, r, query, fragment) ==
            IF Len(r) >= 2 /\ r[1] = "/" /\ r[2] = "/"
            THEN ParseNetloc(scheme, SubSeq(r, 3, Len(r)), query, fragment)
            ELSE UrlParts(scheme, <<>>, r, query, fragment)
        ParseQuery(scheme, r, fragment) ==
            ParseLoc(scheme, BeforeFirst(r, "?"), AfterFirst(r, "?"), fragment)
        ParseFragment(scheme, r) ==
            ParseQuery(scheme, BeforeFirst(r, "#"), AfterFirst(r, "#"))
        ParseScheme(url) ==
            IF Len(url) >= 2 /\ url[2] = ":" /\ url[1] \notin PunctAtoms
            THEN ParseFragment(LowerAtom(url[1]), SubSeq(url, 3, Len(url)))
            ELSE ParseFragment(dflt, url)
    IN  ParseScheme(LStrip(url0))

\* urlunparse
UrlUnparse(scheme, netloc, path, query, fragment) ==
    LET WithNetloc ==
            IF netloc # <<>>
               \/ (scheme # "" /\ scheme \in RelativeSchemes
                   /\ ~StartsWith(path, <<"/", "/">>))
            THEN <<"/", "/">> \o netloc
                 \o (IF path # <<>> /\ path[1] # "/" THEN <<"/">> ELSE <<>>) \o path
            ELSE path
        WithScheme(rest) == IF scheme # "" THEN <<scheme, ":">> \o rest ELSE rest
        WithQuery(rest) == IF query # <<>> THEN rest \o <<"?">> \o query ELSE rest
        WithFragment(rest) == IF fragment # <<>> THEN rest \o <<"#">> \o fragment ELSE rest
    IN  WithFragment(WithQuery(WithScheme(WithNetloc)))

\* the loop of urljoin that resolves "." and ".."
RECURSIVE RemoveDots(_, _)
RemoveDots(segs, acc) ==
    IF segs = <<>> THEN acc
    ELSE IF Head(segs) = <<"..">>
         THEN RemoveDots(Tail(segs),
                         IF acc = <<>> THEN acc ELSE SubSeq(acc, 1, Len(acc) - 1))
    ELSE IF Head(segs) = <<".">> THEN RemoveDots(Tail(segs), acc)
    ELSE RemoveDots(Tail(segs), Append(acc, Head(segs)))

\* segments[1:-1] = filter(None, segments[1:-1])
DropInnerEmpty(segs) ==
    IF Len(segs) <= 2 THEN segs
    ELSE <<segs[1]>>
         \o SelectSeq(SubSeq(segs, 2, Len(segs) - 1), LAMBDA x : x # <<>>)
         \o <<segs[Len(segs)]>>

urljoin(base, url) ==
    LET \* base_parts = bpath.split('/'); if base_parts[-1] != '': del base_parts[-1]
        BaseParts(bp) == IF bp[Len(bp)] # <<>> THEN SubSeq(bp, 1, Len(bp) - 1) ELSE bp
        Segments(base_parts, path) ==
            IF StartsWith(path, <<"/">>) THEN Split(path, "/")
            ELSE DropInnerEmpty(base_parts \o Split(path, "/"))
        Resolve(segments) ==
            IF segments[Len(segments)] \in {<<".">>, <<"..">>}
            THEN Append(RemoveDots(segments, <<>>), <<>>)
            ELSE RemoveDots(segments, <<>>)
        \* once base (b) and url (u) are parsed
        JoinParsed(b, u) ==
            IF u.scheme # b.scheme \/ u.scheme \notin RelativeSchemes THEN url
            ELSE IF u.netloc # <<>>
                 THEN UrlUnparse(u.scheme, u.netloc, u.path, u.query, u.fragment)
            ELSE IF u.path = <<>>
                 THEN UrlUnparse(u.scheme, b.netloc, b.path,
                                 IF u.query = <<>> THEN b.query ELSE u.query, u.fragment)
            ELSE UrlUnparse(u.scheme, b.netloc,
                            Or(Join(<<"/">>,
                                    Resolve(Segments(BaseParts(Split(b.path, "/")),
                                                     u.path))),
                               <<"/">>),
                            u.query, u.fragment)
        JoinBase(b) == JoinParsed(b, UrlParse(url, b.scheme))
    IN  IF base = <<>> THEN url
        ELSE IF url = <<>> THEN base
        ELSE JoinBase(UrlParse(base, ""))

\* _abs_url that appends the value to the base instead of joining them
abs_url_appended(base_url, val) == base_url \o <<"/">> \o val

\* _abs_url
abs_url(base_url, val) == urljoin(base_url, val)

\* _fix_srcset; segs[0] = _abs_url(base_url, segs[0]); " ".join(segs)
fix_srcset(base_url, srcset) ==
    LET StripEach(parts) == [n \in 1..Len(parts) |-> Strip(parts[n])]
        FixItem(segs) == Join(<<SP>>, <<abs_url(base_url, segs[1])>> \o Tail(segs))
        FixItems(items) == [n \in 1..Len(items) |-> FixItem(Tokens(items[n]))]
    IN  Join(<<",", SP>>,
             FixItems(SelectSeq(StripEach(Split(srcset, ",")), LAMBDA x : x # <<>>)))

RECURSIVE NormalizeImgs(_, _, _)
NormalizeImgs(t, imgs, url) ==
    LET NormalizeSrc(img, src) ==
            IF src # <<>> THEN SetAttr(t, img, "src", abs_url(url, src)) ELSE t
        NormalizeSrcset(t1, img) ==
            IF Has(t1, img, "srcset")
            THEN SetAttr(t1, img, "srcset", fix_srcset(url, Get(t1, img, "srcset")))
            ELSE t1
    IN  IF imgs = <<>> THEN t
        ELSE NormalizeImgs(
                 NormalizeSrcset(NormalizeSrc(Head(imgs), ImgSrc(t, Head(imgs))),
                                 Head(imgs)),
                 Tail(imgs), url)

RECURSIVE NormalizeLinks(_, _, _)
NormalizeLinks(t, as, url) ==
    LET NormalizeHref(a, href) ==
            IF href # <<>> /\ ~StartsWith(href, <<"javascript", ":">>)
            THEN SetAttr(t, a, "href", abs_url(url, href)) ELSE t
    IN  IF as = <<>> THEN t
        ELSE NormalizeLinks(NormalizeHref(Head(as), Get(t, Head(as), "href")),
                            Tail(as), url)

\* normalize_urls; if head and not head.find("base"): head.insert(0, base)
normalize_urls(t0, url) ==
    LET WithBase(t, head) ==
            IF head # 0 /\ find(t, head, {"base"}) = 0
            THEN InsertNew(t, head, 0, NodeRec("base", "href" :> url, <<>>, 0))
            ELSE t
        AllImgs(t) == NormalizeImgs(t, find_all(t, 1, {"img"}), url)
        AllLinks(t) == NormalizeLinks(t, find_all(t, 1, {"a"}), url)
    IN  AllLinks(AllImgs(WithBase(t0, find(t0, 1, {"head"}))))

---------------------------------------------------------------------------
(* Input documents: the trees the lxml parser hands to the pipeline *)

Lorem60 == "Lorem-ipsum-dolor-sit-amet-consectetur-adipiscing-elit-sed-do"

\* images: with a src, without one, with an alt, lazy-loaded with a srcset
ImageBlocks ==
    <<E("img", "src" :> <<"a.png">>, <<>>),
      E("img", NoAttrs, <<>>),
      E("img", ("src" :> <<"a.png">>) @@ ("alt" :> <<"Logo">>), <<>>),
      E("img", ("data-src" :> <<"img", "/", "b.png">>) @@ ("alt" :> <<SP>>)
               @@ ("srcset" :> <<"b.png", SP, "1x", ",", SP, "/", "c.png", SP, "2x">>),
        <<>>)>>

Heading(level, text) == E(HTag(level), NoAttrs, <<T(text)>>)

\* the last two blocks are
\* <div><h2>Intro</h2><h4>Usage</h4><h3>Intro</h3></div> and <h3>Sub<em>title</em></h3>
HeadingBlocks ==
    <<Heading(1, <<"Intro">>), Heading(2, <<"Intro">>), Heading(3, <<"Intro">>),
      Heading(4, <<"Intro">>), Heading(4, <<"Usage">>), Heading(6, <<"Intro">>),
      E("div", NoAttrs,
        <<Heading(2, <<"Intro">>), Heading(4, <<"Usage">>), Heading(3, <<"Intro">>)>>),
      E("h3", NoAttrs, <<T(<<"Sub">>), E("em", NoAttrs, <<T(<<"title">>)>>)>>)>>

LinkBlocks ==
    <<E("a", "href" :> <<"/", "pricing">>, <<T(<<"Click", SP, "here">>)>>),
      E("a", ("href" :> <<"/", "pricing">>) @@ ("aria-label" :> <<"See", SP, "pricing">>),
        <<T(<<"Click", SP, "here">>)>>),
      E("a", "href" :> <<"/", "docs", "/", "read", "-", "more", "?", "ref", "#", "top">>,
        <<T(<<"Read", SP, "more">>)>>),
      E("a", NoAttrs, <<T(<<"here">>)>>),
      E("a", ("href" :> <<"/", "x">>) @@ ("target" :> <<"_blank">>)
             @@ ("rel" :> <<"NOOPENER", SP, "nofollow">>),
        <<T(<<"Docs">>)>>),
      E("a", ("href" :> <<"/", "x">>) @@ ("target" :> <<"_blank">>),
        <<T(<<"Pricing">>)>>),
      E("a", ("href" :> <<"/", "x">>) @@ ("target" :> <<"_blank">>)
             @@ ("rel" :> <<"noopener", SP, "noreferrer">>),
        <<T(<<"Docs">>)>>),
      E("a", "href" :> <<"/", "pricing">>, <<ImageBlocks[3]>>),
      E("a", ("href" :> <<"/", "docs", "/">>) @@ ("title" :> <<"Docs">>),
        <<T(<<"more">>)>>),
      E("a", "href" :> <<"/", "pricing">>,
        <<T(<<"click", SP>>), E("b", NoAttrs, <<T(<<"here">>)>>)>>),
      E("a", "aria-label" :> <<"Menu">>, <<>>)>>

ControlBlocks ==
    <<E("input", ("name" :> <<"q">>) @@ ("placeholder" :> <<"Search">>), <<>>),
      E("input", "type" :> <<"text">>, <<>>),
      E("input", "id" :> <<"email">>, <<>>),
      E("select", "name" :> <<"q">>, <<>>),
      E("button", "name" :> <<"b">>, <<>>),
      E("button", "name" :> <<"go">>, <<E("svg", NoAttrs, <<>>)>>),
      E("iframe", "src" :> <<"/", "x">>, <<>>),
      E("svg", NoAttrs, <<E("title", NoAttrs, <<T(<<"Chart">>)>>)>>)>>

\* blocks that hold script, style or noscript, and blocks long enough to be
\* chunked as sections
ScriptBlocks ==
    <<E("div", NoAttrs, <<E("script", NoAttrs, <<T(<<"x=1">>)>>), T(<<"Hello">>)>>),
      E("p", NoAttrs, <<T(<<Lorem60>>)>>),
      E("p", NoAttrs, <<E("noscript", NoAttrs, <<ImageBlocks[1]>>), T(<<"Hello">>)>>),
      E("div", NoAttrs,
        <<T(<<Lorem60, SP, Lorem60>>), E("style", NoAttrs, <<T(<<"p{}">>)>>)>>)>>

DocumentBlocks ==
    <<E("div", NoAttrs, <<T(<<"Hello">>)>>),
      E("p", NoAttrs, <<T(<<"Hello">>)>>),
      E("a", "href" :> <<"#", "main">>, <<T(<<"Skip">>)>>),
      E("main", NoAttrs, <<T(<<"Hello">>)>>),
      E("nav", NoAttrs, <<>>)>>

\* the html element of a document: head says what the markup holds besides
\* the body
\*   "none"   a fragment: lxml builds html and body, and no head
\*   "bare"   <html><head></head><body>
\*   "full"   lang, title, charset and viewport present
\*   "langws" as full, with lang=" "
\*   "based"  a head that holds a base element
HtmlOf(head, body) ==
    LET FullHead ==
            E("head", NoAttrs,
              <<E("title", NoAttrs, <<T(<<"Home">>)>>),
                E("meta", "charset" :> <<"utf-8">>, <<>>),
                E("meta", ("name" :> <<"viewport">>)
                          @@ ("content" :> <<"width=device-width">>),
                  <<>>)>>)
        BasedHead ==
            E("head", NoAttrs,
              <<E("base", "href" :> <<"http", ":", "/", "/", "cdn", "/">>, <<>>)>>)
    IN  IF head = "none" THEN E("html", NoAttrs, <<body>>)
        ELSE IF head = "bare" THEN E("html", NoAttrs, <<E("head", NoAttrs, <<>>), body>>)
        ELSE IF head = "full" THEN E("html", "lang" :> <<"en">>, <<FullHead, body>>)
        ELSE IF head = "langws" THEN E("html", "lang" :> <<SP>>, <<FullHead, body>>)
        ELSE E("html", NoAttrs, <<BasedHead, body>>)

\* the tree the parser builds
MkDoc(head, blocks) == Build(EmptySoup, 1, HtmlOf(head, E("body", NoAttrs, blocks)))

\* families of documents: the head variants and the body blocks of each
Families ==
    <<[heads |-> {"full"}, blocks |-> ImageBlocks],
      [heads |-> {"full"}, blocks |-> HeadingBlocks],
      [heads |-> {"full"}, blocks |-> LinkBlocks],
      [heads |-> {"full"}, blocks |-> ControlBlocks],
      [heads |-> {"full"}, blocks |-> ScriptBlocks],
      [heads |-> {"none", "bare", "full", "langws"}, blocks |-> DocumentBlocks]>>

\* the documents of a family: every head variant with every choice of at
\* most MaxBody blocks
DocsOf(fam) ==
    LET IndexSeqs(n) == UNION {[1..m -> 1..n] : m \in 0..MaxBody}
    IN  {MkDoc(h, [n \in 1..Len(ix) |-> fam.blocks[ix[n]]]) :
            h \in fam.heads, ix \in IndexSeqs(Len(fam.blocks))}

\* the documents of the families, and a fragment whose body holds two spans,
\* the second with an image nine spans deep (13 elements from the root)
Docs ==
    LET RECURSIVE Nested(_)
        Nested(n) ==
            IF n = 0
            THEN E("img", ("src" :> <<"deep.png">>) @@ ("alt" :> <<"Deep">>), <<>>)
            ELSE E("span", NoAttrs, <<Nested(n - 1)>>)
    IN  UNION {DocsOf(Families[f]) : f \in 1..Len(Families)}
            \cup {MkDoc("none", <<Nested(1), Nested(9)>>)}

\* the base URL: entry_url is always absolute (websites.py makes it so, and
\* the page was fetched from it)
PageUrl == <<"http", ":", "/", "/", "h", "/", "dir", "/", "page">>

\* anchors and images whose URLs take every branch of urljoin
UrlFamily ==
    LET Href(url) == E("a", "href" :> url, <<T(<<"Docs">>)>>)
    IN  [heads |-> {"none", "bare", "based"},
         blocks |->
            <<Href(<<"a.html">>), Href(<<"/", "x">>), Href(<<"..", "/", "up">>),
              Href(<<".", "/">>), Href(<<"?", "y">>), Href(<<"#", "top">>),
              Href(<<"/", "/", "o", "/", "a", "/", "..", "/", "b">>),
              Href(<<"HTTP", ":", "/", "/", "h", "/", "x">>), Href(<<"http", ":", "x">>),
              Href(<<"mailto", ":", "x">>), Href(<<"javascript", ":", "void">>),
              Href(<<SP, "/", "x">>), Href(<<"x", "#">>), Href(<<>>),
              ImageBlocks[1], ImageBlocks[2], ImageBlocks[4]>>]

BaseUrls ==
    {PageUrl,
     <<"https", ":", "/", "/", "h">>,
     <<"http", ":", "/", "/", "h", "/", "a", "/", "?", "q">>}

---------------------------------------------------------------------------
(* The pipeline: app.py runs extract_chunks, audit and apply_fixes in turn *)

NoCalls == [x \in {} |-> ""]

Init ==
    /\ raw \in Docs
    /\ pc = "start"
    /\ xsoup = <<>>
    /\ runs = 0
    /\ chunks = <<>>
    /\ prevChunks = <<>>
    /\ issues = <<>>
    /\ soup = <<>>
    /\ k = 0
    /\ calls = NoCalls
    /\ raised = FALSE
    /\ pre = <<>>
    /\ page_url = PageUrl
    /\ fixed_html = <<>>

\* extract_chunks working on the tree of the run before instead of parsing
ExtractInputKept == IF runs = 0 THEN raw ELSE xsoup

\* soup = BeautifulSoup(html or "", "lxml") in extract_chunks: a fresh tree
ExtractInput == raw

\* extract_chunks(html); a second run on the same html ends the behaviour
ExtractChunks ==
    /\ pc \in {"start", "extracted"}
    /\ runs < 2
    /\ LET Extracted(r) == xsoup' = r.t /\ chunks' = r.cs
       IN  Extracted(extract_chunks(ExtractInput))
    /\ prevChunks' = chunks
    /\ runs' = runs + 1
    /\ pc' = IF runs = 0 THEN "extracted" ELSE "reextracted"
    /\ UNCHANGED <<raw, issues, soup, k, calls, raised, pre, page_url, fixed_html>>

\* issues = audit(chunks)
Audit ==
    /\ pc = "extracted"
    /\ issues' = audit(chunks)
    /\ pc' = "audited"
    /\ UNCHANGED <<raw, xsoup, runs, chunks, prevChunks, soup, k, calls, raised, pre,
                   page_url, fixed_html>>

\* apply_fixes: soup = BeautifulSoup(raw_html or "", "lxml")
BeginFixes ==
    /\ pc = "audited"
    /\ soup' = raw
    /\ k' = 1
    /\ pc' = "fixing"
    /\ UNCHANGED <<raw, xsoup, runs, chunks, prevChunks, issues, calls, raised, pre,
                   page_url, fixed_html>>

\* the images whose alt the issue sets through generate_alt
CallsOf(t, iss) ==
    IF iss.kind = "MISSING_ALT" /\ iss.chunk.role = "img"
    THEN Range(AltCandidates(t, iss.chunk.attrs)) ELSE {}

\* ApplyFix with normalize_urls run at the end of every turn
ApplyFixNormalizing ==
    /\ pc \in {"fixing", "refixing"}
    /\ k <= Len(issues)
    /\ \E outs \in [CallsOf(soup, issues[k]) -> Outcomes] :
         LET Fixed(r) ==
                 /\ soup' = normalize_urls(r.t, page_url)
                 /\ raised' = r.raised
                 /\ calls' = outs @@ calls
                 /\ pc' = IF r.raised THEN "failed" ELSE pc
         IN  Fixed(ApplyIssue(soup, issues[k], outs))
    /\ pre' = soup
    /\ k' = k + 1
    /\ UNCHANGED <<raw, xsoup, runs, chunks, prevChunks, issues, page_url, fixed_html>>

\* apply_fixes: one turn of the loop over the issues
ApplyFix ==
    /\ pc \in {"fixing", "refixing"}
    /\ k <= Len(issues)
    /\ \E outs \in [CallsOf(soup, issues[k]) -> Outcomes] :
         LET Fixed(r) ==
                 /\ soup' = r.t
                 /\ raised' = r.raised
                 /\ calls' = outs @@ calls
                 /\ pc' = IF r.raised THEN "failed" ELSE pc
         IN  Fixed(ApplyIssue(soup, issues[k], outs))
    /\ pre' = soup
    /\ k' = k + 1
    /\ UNCHANGED <<raw, xsoup, runs, chunks, prevChunks, issues, page_url, fixed_html>>

\* apply_fixes after the loop: normalize_urls when page_url is given
\* and return str(soup)
FinishFixes ==
    /\ pc \in {"fixing", "refixing"}
    /\ k > Len(issues)
    /\ pre' = soup
    /\ soup' = IF page_url # <<>> THEN normalize_urls(soup, page_url) ELSE soup
    /\ fixed_html' = IF pc = "fixing" THEN Markup(soup', 1).kids ELSE fixed_html
    /\ pc' = IF pc = "fixing" THEN "done" ELSE "redone"
    /\ UNCHANGED <<raw, xsoup, runs, chunks, prevChunks, issues, k, calls, raised,
                   page_url>>

\* apply_fixes called on the markup it returned, with the same issues: the
\* parser builds the tree anew.  Followed for markup the parser gives back
\* as it reads: a head, if there is one, inside html
BeginFixesAgain ==
    /\ pc = "done"
    /\ find(soup, 1, {"head"}) # 0 => soup[find(soup, 1, {"head"})].parent = find(soup, 1, {"html"})
    /\ soup' = BuildAll(EmptySoup, 1, fixed_html)
    /\ k' = 1
    /\ pc' = "refixing"
    /\ UNCHANGED <<raw, xsoup, runs, chunks, prevChunks, issues, calls, raised, pre,
                   page_url, fixed_html>>

Next ==
    ExtractChunks \/ Audit \/ BeginFixes \/ ApplyFix \/ FinishFixes \/ BeginFixesAgain

Spec == Init /\ [][Next]_vars

---------------------------------------------------------------------------
(* The pipeline with a collaborator that may leave a request unanswered *)

\* generate_alt: client.responses.create(...) is given no timeout and gets
\* no answer, so the call, and with it the turn of the loop, does not return
CallUnanswered ==
    /\ pc = "fixing"
    /\ k <= Len(issues)
    /\ CallsOf(soup, issues[k]) # {}
    /\ pc' = "waiting"
    /\ UNCHANGED <<raw, xsoup, runs, chunks, prevChunks, issues, soup, k, calls, raised,
                   pre, page_url, fixed_html>>

\* apply_fixes runs on while it can: a turn of its loop that can return, and
\* the statements after the loop, are executed sooner or later (ApplyFix and
\* FinishFixes as they move pc and k)
SpecUnanswered ==
    /\ Init
    /\ [][Next \/ CallUnanswered]_vars
    /\ WF_<<pc, k>>(/\ pc = "fixing"
                    /\ \/ k <= Len(issues) /\ k' = k + 1 /\ pc' \in {"fixing", "failed"}
                       \/ k > Len(issues) /\ k' = k /\ pc' = "done")

---------------------------------------------------------------------------
(* audit on lists of heading chunks *)

\* a heading chunk as extract_chunks builds it; n tells the chunks apart
HeadingChunk(level, n) ==
    Chunk("heading", <<[tag |-> HTag(level), nth |-> n]>>, <<"Intro">>,
          [tag |-> HTag(level)], n)

HeadingChunkLists ==
    UNION {{[n \in 1..m |-> HeadingChunk(ls[n], n)] : ls \in [1..m -> 1..6]} :
              m \in 0..MaxHeadings}

InitAudit ==
    /\ chunks \in HeadingChunkLists
    /\ pc = "extracted"
    /\ raw = <<>>
    /\ xsoup = <<>>
    /\ runs = 1
    /\ prevChunks = <<>>
    /\ issues = <<>>
    /\ soup = <<>>
    /\ k = 0
    /\ calls = NoCalls
    /\ raised = FALSE
    /\ pre = <<>>
    /\ page_url = PageUrl
    /\ fixed_html = <<>>

SpecAudit == InitAudit /\ [][Audit]_vars

---------------------------------------------------------------------------
(* normalize_urls applied to a tree, and again to what it gave *)

InitNormalize ==
    /\ soup \in DocsOf(UrlFamily)
    /\ page_url \in BaseUrls
    /\ pc = "normalizing"
    /\ runs = 0
    /\ pre = <<>>
    /\ raw = <<>>
    /\ xsoup = <<>>
    /\ chunks = <<>>
    /\ prevChunks = <<>>
    /\ issues = <<>>
    /\ k = 0
    /\ calls = NoCalls
    /\ raised = FALSE
    /\ fixed_html = <<>>

\* normalize_urls(soup, page_url)
Normalize ==
    /\ pc = "normalizing"
    /\ runs < 2
    /\ pre' = soup
    /\ soup' = normalize_urls(soup, page_url)
    /\ runs' = runs + 1
    /\ UNCHANGED <<pc, raw, xsoup, chunks, prevChunks, issues, k, calls, raised,
                   page_url, fixed_html>>

SpecNormalize == InitNormalize /\ [][Normalize]_vars

---------------------------------------------------------------------------
(* apply_fixes on lists that repeat the head-level issues *)

\* longest issue list handed to apply_fixes
MaxRepeat == 3

\* the documents: with and without head, title, charset, viewport and lang,
\* with and without a title outside head; the issues: the four as audit
\* emits them for the document chunk c
InitDocFix ==
    LET MetaDocs ==
            {MkDoc(h, bs) : h \in {"none", "bare", "full", "langws"},
                            bs \in {<<>>, <<ControlBlocks[8]>>}}
        MetaIssues(c) ==
            {Issue("MISSING_TITLE", "MEDIUM", NoDetails, c),
             Issue("MISSING_VIEWPORT", "LOW", NoDetails, c),
             Issue("MISSING_CHARSET", "LOW", NoDetails, c),
             Issue("MISSING_LANG", "MEDIUM", NoDetails, c)}
    IN
    /\ raw \in MetaDocs
    /\ soup = raw
    /\ issues \in UNION {[1..m -> MetaIssues(DocumentChunk(raw))] : m \in 0..MaxRepeat}
    /\ pc = "fixing"
    /\ k = 1
    /\ xsoup = <<>>
    /\ runs = 0
    /\ chunks = <<>>
    /\ prevChunks = <<>>
    /\ calls = NoCalls
    /\ raised = FALSE
    /\ pre = <<>>
    /\ page_url = PageUrl
    /\ fixed_html = <<>>

SpecDocFix == InitDocFix /\ [][ApplyFix \/ FinishFixes]_vars

---------------------------------------------------------------------------
(* Properties *)

OfKind(iss, kind) == SelectSeq(iss, LAMBDA i : i.kind = kind)

AfterAudit == pc \in {"audited", "fixing", "done"}

\* the level a heading tag names
LevelOfTag(tag) == CHOOSE l \in 1..6 : HTag(l) = tag

\* positions of hs, after the first, whose level exceeds the level of the
\* heading just before by more than 1
JumpsAt(hs) ==
    SelectSeq([n \in 1..Len(hs) |-> n],
        LAMBDA i : i > 1 /\ LevelOfTag(hs[i].attrs.tag) - LevelOfTag(hs[i - 1].attrs.tag) > 1)

JumpIssueAt(hs, i) ==
    Issue("BAD_HEADING_ORDER", "LOW",
          [prev |-> LevelOfTag(hs[i - 1].attrs.tag), curr |-> LevelOfTag(hs[i].attrs.tag)],
          hs[i])

JumpIssuesAt(hs, at) == [n \in 1..Len(at) |-> JumpIssueAt(hs, at[n])]

JumpIssues(hs) == JumpIssuesAt(hs, JumpsAt(hs))

\* C1: for a list of heading chunks of levels 1-6, audit emits
\* BAD_HEADING_ORDER for the heading at position i exactly when its level
\* exceeds the level of the heading at i-1 by more than 1, with prev and
\* curr those two levels, and for no other heading.
C1_HeadingJumps ==
    pc = "audited" =>
        OfKind(issues, "BAD_HEADING_ORDER") = JumpIssues(OfRole(chunks, "heading"))

\* h2, h3, h5 audited: one issue, for the second transition only
C1_Witness ==
    /\ pc = "audited"
    /\ [n \in 1..Len(chunks) |-> chunks[n].attrs.tag] = <<"h2", "h3", "h5">>
    /\ Len(issues) = 1
    /\ issues[1].details = [prev |-> 3, curr |-> 5]
    /\ issues[1].chunk = chunks[3]

HeadingTags == {"h1", "h2", "h3", "h4", "h5", "h6"}

\* the jumps between headings that follow each other in the document
DocJumpsOf(t, hs) ==
    {[node |-> hs[i], prev |-> TagDigit[t[hs[i - 1]].tag], curr |-> TagDigit[t[hs[i]].tag]] :
        i \in {j \in 2..Len(hs) : TagDigit[t[hs[j]].tag] - TagDigit[t[hs[j - 1]].tag] > 1}}

DocJumps(t) == DocJumpsOf(t, find_all(t, 1, HeadingTags))

\* the jumps audit reported
FlaggedJumps(iss) ==
    {[node |-> i.chunk.node, prev |-> i.details.prev, curr |-> i.details.curr] :
        i \in Range(OfKind(iss, "BAD_HEADING_ORDER"))}

\* C2: extract followed by audit compares each heading with the heading
\* that immediately precedes it in the document: the headings flagged
\* BAD_HEADING_ORDER, with their prev and curr, are the jumps of more than
\* one level between headings adjacent in document order.
C2_DocumentOrder == pc = "audited" => FlaggedJumps(issues) = DocJumps(raw)

\* C3: remediation never removes content: every element and text node of
\* the tree apply_fixes started from is still in the tree while and after
\* it applies the fixes.
C3_NothingRemoved == pc \in {"fixing", "done"} => InTree(raw) \subseteq InTree(soup)

Count(t, tag) == Len(find_all(t, 1, {tag}))

NoLandmarks(t) == Count(t, "main") = 0 /\ Count(t, "nav") = 0

DetailsOf(iss) == [n \in 1..Len(iss) |-> iss[n].details]

\* C4: for a document with neither main nor nav, audit emits exactly two
\* MISSING_LANDMARKS issues, missing=main and missing=nav, and the tree
\* apply_fixes leaves holds exactly one main and exactly one nav.
C4_Landmarks ==
    /\ (AfterAudit /\ NoLandmarks(raw)) =>
           DetailsOf(OfKind(issues, "MISSING_LANDMARKS"))
               = <<[missing |-> "main"], [missing |-> "nav"]>>
    /\ (pc = "done" /\ NoLandmarks(raw)) =>
           Count(soup, "main") = 1 /\ Count(soup, "nav") = 1

\* a document with a div and no landmark, remediated: main wraps the div
C4_Witness ==
    /\ pc = "done"
    /\ NoLandmarks(raw)
    /\ Count(raw, "div") > 0
    /\ Len(OfKind(issues, "MISSING_LANDMARKS")) = 2
    /\ Count(soup, "main") = 1
    /\ Count(soup, "nav") = 1
    /\ soup[soup[find(soup, 1, {"div"})].parent].tag = "main"

\* the rel tokens of anchor a as the markup of t gives them
RelTokens(t, a) ==
    IF Has(t, a, "rel") THEN Range(Tokens(t[a].attrs["rel"])) ELSE {}

LowerSet(S) == {Lower(x) : x \in S}

BothRels == {<<"noopener">>, <<"noreferrer">>}

NodesOf(cs) == {cs[n].node : n \in 1..Len(cs)}

FlaggedAs(kind) == {i.chunk.node : i \in Range(OfKind(issues, kind))}

\* C5: a link chunk with target=_blank is flagged BLANK_TARGET_NO_REL
\* exactly when its rel tokens lack noopener or noreferrer, and after
\* remediation the rel token set of every anchor so flagged is its
\* original lower-cased token set united with {noopener, noreferrer}.
C5_BlankTargetRel ==
    /\ AfterAudit =>
           FlaggedAs("BLANK_TARGET_NO_REL")
               = NodesOf(SelectSeq(OfRole(chunks, "link"),
                     LAMBDA c : /\ c.attrs.target = <<"_blank">>
                                /\ ~(BothRels \subseteq LowerSet(Range(c.attrs.rel)))))
    /\ pc = "done" =>
           \A a \in FlaggedAs("BLANK_TARGET_NO_REL") :
               RelTokens(soup, a) = LowerSet(RelTokens(raw, a)) \cup BothRels

\* the title-cased slug of the last path segment of href: query and
\* fragment dropped, hyphens and underscores turned into spaces
SlugOf(href) ==
    Title(Strip(Replace(Replace(
        BeforeFirst(BeforeFirst(AfterLast(href, "/"), "?"), "#"), "-", SP), "_", SP)))

\* the visible text the claim gives the link a: its aria-label, else the
\* slug of its href; a link whose href yields no slug may get any text
HasClaimedText(a) ==
    IF Get(raw, a, "aria-label") # <<>>
    THEN get_text(soup, a, <<SP>>) = Get(raw, a, "aria-label")
    ELSE IF SlugOf(Strip(Get(raw, a, "href"))) # <<>>
    THEN get_text(soup, a, <<SP>>) = SlugOf(Strip(Get(raw, a, "href")))
    ELSE get_text(soup, a, <<SP>>) # <<>>

\* C6: a link whose trimmed, lower-cased text is in the vague-text set is
\* flagged POOR_LINK_TEXT, and after remediation the visible text of every
\* link so flagged is its aria-label when that is non-empty, and otherwise
\* the title-cased slug of the last path segment of its href.
C6_PoorLinkText ==
    /\ AfterAudit =>
           FlaggedAs("POOR_LINK_TEXT")
               = NodesOf(SelectSeq(OfRole(chunks, "link"),
                     LAMBDA c : Lower(Strip(c.text)) \in _VAGUE_LINK_TEXT))
    /\ pc = "done" => \A a \in FlaggedAs("POOR_LINK_TEXT") : HasClaimedText(a)

\* the collaborator unconfigured, unavailable, raising, or answering nothing
FailureOutcomes == {"no_key", "sdk_error", "raises", "empty"}

\* C7: when the text-generation collaborator is unconfigured, unavailable,
\* raises or returns empty text, the image a MISSING_ALT fix located gets
\* alt "Image", and no exception leaves apply_fixes.
C7_AltFallback ==
    /\ ~raised
    /\ pc # "failed"
    /\ pc \in {"fixing", "done"} =>
           \A img \in DOMAIN calls :
               calls[img] \in FailureOutcomes => Get(soup, img, "alt") = <<"Image">>

\* apply_fixes completed although the collaborator raised for an image
C7_Witness ==
    /\ pc = "done"
    /\ ~raised
    /\ \E img \in DOMAIN calls :
           /\ calls[img] = "raises"
           /\ ~Has(raw, img, "alt")
           /\ Get(soup, img, "alt") = <<"Image">>

C10_TreeUntouched == pc \in {"extracted", "reextracted"} => xsoup = raw

ElementKinds ==
    {"MISSING_ALT", "BAD_HEADING_ORDER", "POOR_LINK_TEXT", "LINK_NO_NAME",
     "BLANK_TARGET_NO_REL", "CONTROL_NO_LABEL", "IFRAME_NO_TITLE", "SVG_NO_NAME",
     "A_ACTS_BUTTON"}

\* the elements of t that the test of the branch for issue iss lets through
Relocated(t, iss) ==
    LET c == iss.chunk
        Els(tags) == Range(find_all(t, 1, tags))
    IN  CASE iss.kind = "MISSING_ALT" ->
                IF Strip(c.attrs.src) # <<>>
                THEN {i \in Els({"img"}) : Strip(ImgSrc(t, i)) = Strip(c.attrs.src)}
                ELSE {i \in Els({"img"}) : Strip(Get(t, i, "alt")) = <<>>}
          [] iss.kind = "BAD_HEADING_ORDER" ->
                {h \in Els({c.attrs.tag}) : get_text(t, h, <<>>) = Strip(c.text)}
          [] iss.kind = "POOR_LINK_TEXT" ->
                {a \in Els({"a"}) : get_text(t, a, <<>>) = Strip(c.text)}
          [] iss.kind = "LINK_NO_NAME" ->
                {a \in Els({"a"}) : /\ Strip(Get(t, a, "href")) = Strip(c.attrs.href)
                                    /\ get_text(t, a, <<>>) = <<>>}
          [] iss.kind = "BLANK_TARGET_NO_REL" ->
                {a \in Els({"a"}) : /\ Strip(Get(t, a, "href")) = Strip(c.attrs.href)
                                    /\ Get(t, a, "target") = <<"_blank">>}
          [] iss.kind = "CONTROL_NO_LABEL" ->
                {el \in Els({"input", "select", "textarea", "button"}) :
                    /\ t[el].tag = c.attrs.tag
                    /\ \/ c.attrs.id # <<>> /\ Get(t, el, "id") = c.attrs.id
                       \/ c.attrs.name # <<>> /\ Get(t, el, "name") = c.attrs.name}
          [] iss.kind = "IFRAME_NO_TITLE" ->
                {fr \in Els({"iframe"}) : Strip(Get(t, fr, "title")) = <<>>}
          [] iss.kind = "SVG_NO_NAME" -> Els({"svg"})
          [] iss.kind = "A_ACTS_BUTTON" ->
                {a \in Els({"a"}) : Strip(Get(t, a, "href")) = <<>>}
          [] OTHER -> {}

\* the issue the last turn of the loop handled, on the tree it found
NotFound(kinds) ==
    /\ pc \in {"fixing", "failed"}
    /\ k > 1
    /\ issues[k - 1].kind \in kinds
    /\ Relocated(pre, issues[k - 1]) = {}

\* C11: for an element-level issue whose relocation matches no element of
\* the current tree, apply_fixes leaves the tree as it was, raises nothing
\* and goes on with the remaining issues.
C11_TargetNotFound ==
    NotFound(ElementKinds) => soup = pre /\ ~raised /\ pc = "fixing"

\* a CONTROL_NO_LABEL issue for an input that has neither id nor name was
\* passed over, and the loop has a further issue to handle
C11_Witness ==
    /\ NotFound({"CONTROL_NO_LABEL"})
    /\ soup = pre
    /\ pc = "fixing"
    /\ k <= Len(issues)

\* the sibling just before el, 0 when el comes first
PrevSibling(t, el) ==
    LET kids == t[t[el].parent].kids
    IN  IF IndexIn(kids, el) = 1 THEN 0 ELSE kids[IndexIn(kids, el) - 1]

\* el has a non-empty id and the element just before it is a label for it
Labelled(t, el) ==
    /\ Get(t, el, "id") # <<>>
    /\ PrevSibling(t, el) # 0
    /\ t[PrevSibling(t, el)].tag = "label"
    /\ Get(t, PrevSibling(t, el), "for") = Get(t, el, "id")

\* C12: after remediation every input, select or textarea that audit
\* flagged CONTROL_NO_LABEL has a non-empty id and is immediately preceded
\* by a label whose for attribute is that id, and every flagged button
\* shows its existing text or "Submit".
C12_ControlLabelled ==
    pc = "done" =>
        \A c \in FlaggedAs("CONTROL_NO_LABEL") :
            IF raw[c].tag = "button"
            THEN get_text(soup, c, <<SP>>) = Or(get_text(raw, c, <<SP>>), <<"Submit">>)
            ELSE Labelled(soup, c)

Anchors(t) == Range(find_all(t, 1, {"a"}))

\* C13: the A_ACTS_BUTTON fix retags an anchor to a button only when the
\* anchor has no href and no visible text, and then the button has a label;
\* an anchor without href but with visible text, and every anchor with a
\* non-empty href, keeps the tag a.
C13_RetagOnlyEmpty ==
    pc = "done" =>
        \A a \in Anchors(raw) :
            IF Strip(Get(raw, a, "href")) = <<>> /\ get_text(raw, a, <<SP>>) = <<>>
            THEN soup[a].tag = "button" => get_text(soup, a, <<SP>>) # <<>>
            ELSE soup[a].tag = "a"

\* the kinds of the issues the loop has handled
Handled == {issues[n].kind : n \in 1..(IF pc = "done" THEN Len(issues) ELSE k - 1)}

HeadOf(t) == find(t, 1, {"head"})
HtmlEl(t) == find(t, 1, {"html"})

\* the title, viewport meta and charset meta elements below head
HeadTitles(t) == IF HeadOf(t) = 0 THEN <<>> ELSE find_all(t, HeadOf(t), {"title"})
HeadViewports(t) ==
    IF HeadOf(t) = 0 THEN <<>>
    ELSE SelectSeq(find_all(t, HeadOf(t), {"meta"}),
                   LAMBDA m : Get(t, m, "name") = <<"viewport">>)
HeadCharsets(t) ==
    IF HeadOf(t) = 0 THEN <<>>
    ELSE SelectSeq(find_all(t, HeadOf(t), {"meta"}), LAMBDA m : Has(t, m, "charset"))

\* items is as it was when the document had one, and holds exactly one
\* when the document had none and the fix was applied
AddedOnce(before, after, kind) ==
    IF before # <<>> THEN after = before
    ELSE IF kind \in Handled THEN Len(after) = 1
    ELSE after = <<>>

\* C14: the MISSING_TITLE, MISSING_VIEWPORT, MISSING_CHARSET and
\* MISSING_LANG fixes insert their default only where the item is absent:
\* however often the issues occur in the list, at most one title
\* ("Accessible Page"), one viewport meta and one charset meta (utf-8) are
\* added, lang becomes "en" only where there was none, and an existing
\* title or lang value stays as it was.
C14_DocFixesOnce ==
    pc \in {"fixing", "done"} =>
        /\ AddedOnce(HeadTitles(raw), HeadTitles(soup), "MISSING_TITLE")
        /\ AddedOnce(HeadViewports(raw), HeadViewports(soup), "MISSING_VIEWPORT")
        /\ AddedOnce(HeadCharsets(raw), HeadCharsets(soup), "MISSING_CHARSET")
        /\ \A n \in 1..Len(HeadTitles(soup)) :
               get_text(soup, HeadTitles(soup)[n], <<SP>>)
                   = IF HeadTitles(raw) # <<>>
                     THEN get_text(raw, HeadTitles(raw)[n], <<SP>>)
                     ELSE <<"Accessible", SP, "Page">>
        /\ \A n \in 1..Len(HeadCharsets(soup)) :
               HeadCharsets(raw) = <<>> =>
                   Get(soup, HeadCharsets(soup)[n], "charset") = <<"utf-8">>
        /\ Get(soup, HtmlEl(soup), "lang")
               = IF Get(raw, HtmlEl(raw), "lang") # <<>> THEN Get(raw, HtmlEl(raw), "lang")
                 ELSE IF "MISSING_LANG" \in Handled THEN <<"en">>
                 ELSE <<>>

\* MISSING_VIEWPORT handled three times on a document without head: one
\* viewport meta
C14_Witness ==
    /\ pc = "done"
    /\ HeadOf(raw) = 0
    /\ Len(issues) = MaxRepeat
    /\ \A n \in 1..Len(issues) : issues[n].kind = "MISSING_VIEWPORT"
    /\ Len(HeadViewports(soup)) = 1

\* C15: apply_fixes run with the same issue list on the tree it already
\* remediated leaves that tree as it is: no second label, no second
\* wrapper, no further rename, no attribute change.
C15_PatchIdempotent == pc = "redone" => Markup(soup, 1).kids = fixed_html

\* the role of the chunks each issue kind applies to
KindRole ==
    [MISSING_ALT |-> "img", BAD_HEADING_ORDER |-> "heading", POOR_LINK_TEXT |-> "link",
     LINK_NO_NAME |-> "link", BLANK_TARGET_NO_REL |-> "link", A_ACTS_BUTTON |-> "link",
     CONTROL_NO_LABEL |-> "control", IFRAME_NO_TITLE |-> "iframe", SVG_NO_NAME |-> "svg",
     MISSING_TITLE |-> "document", MISSING_VIEWPORT |-> "document",
     MISSING_CHARSET |-> "document", MISSING_LANG |-> "document",
     MISSING_SKIPLINK |-> "document", MISSING_LANDMARKS |-> "document"]

\* the kinds of the issues whose source chunk is c
KindsOf(c) == {i.kind : i \in {j \in Range(issues) : j.chunk = c}}

\* C16: every issue audit emits has a kind that applies to the role of its
\* source chunk (MISSING_ALT to img, BAD_HEADING_ORDER to heading, the four
\* link kinds to link, CONTROL_NO_LABEL to control, IFRAME_NO_TITLE to
\* iframe, SVG_NO_NAME to svg, MISSING_* to document); section chunks carry
\* no issue.
C16_KindMatchesRole ==
    AfterAudit =>
        /\ \A i \in Range(issues) :
               i.kind \in DOMAIN KindRole /\ i.chunk.role = KindRole[i.kind]
        /\ \A c \in Range(chunks) : c.role = "section" => KindsOf(c) = {}

\* a link chunk that carries two kinds, beside a link chunk that carries none
C16_Witness ==
    /\ pc = "audited"
    /\ \E c \in Range(chunks) :
           c.role = "link" /\ {"POOR_LINK_TEXT", "A_ACTS_BUTTON"} \subseteq KindsOf(c)
    /\ \E c \in Range(chunks) : c.role = "link" /\ KindsOf(c) = {}

\* an anchor of t that targets #main, or whose text holds "skip"
HasSkipLink(t) ==
    \E a \in Anchors(t) :
        \/ Get(t, a, "href") = <<"#", "main">>
        \/ Range(get_text(t, a, <<SP>>)) \cap {"Skip", "skip"} # {}

\* kind, severity and details of one issue per condition document t does
\* not meet
Unmet(t) ==
       (IF HeadTitles(t) = <<>> THEN <<<<"MISSING_TITLE", "MEDIUM", NoDetails>>>> ELSE <<>>)
    \o (IF HeadViewports(t) = <<>>
        THEN <<<<"MISSING_VIEWPORT", "LOW", NoDetails>>>> ELSE <<>>)
    \o (IF HeadCharsets(t) = <<>>
        THEN <<<<"MISSING_CHARSET", "LOW", NoDetails>>>> ELSE <<>>)
    \o (IF HtmlEl(t) = 0 \/ Strip(Get(t, HtmlEl(t), "lang")) = <<>>
        THEN <<<<"MISSING_LANG", "MEDIUM", NoDetails>>>> ELSE <<>>)
    \o (IF ~HasSkipLink(t) THEN <<<<"MISSING_SKIPLINK", "LOW", NoDetails>>>> ELSE <<>>)
    \o (IF Count(t, "main") = 0
        THEN <<<<"MISSING_LANDMARKS", "LOW", [missing |-> "main"]>>>> ELSE <<>>)
    \o (IF Count(t, "nav") = 0
        THEN <<<<"MISSING_LANDMARKS", "LOW", [missing |-> "nav"]>>>> ELSE <<>>)

\* the issues whose source is a document chunk: kind, severity, details
DocumentIssues ==
    LET Of(sel) == [n \in 1..Len(sel) |-> <<sel[n].kind, sel[n].sev, sel[n].details>>]
    IN  Of(SelectSeq(issues, LAMBDA i : i.chunk.role = "document"))

\* C17: extract emits exactly one document chunk, and for it audit emits
\* exactly one issue per condition the document does not meet and none per
\* condition it meets: MISSING_TITLE (MEDIUM), MISSING_VIEWPORT (LOW),
\* MISSING_CHARSET (LOW), MISSING_LANG (MEDIUM), MISSING_SKIPLINK (LOW) and
\* MISSING_LANDMARKS (LOW) once for a missing main and once for a missing
\* nav.
C17_DocumentIssues ==
    /\ pc \in {"extracted", "audited"} => Len(OfRole(chunks, "document")) = 1
    /\ pc = "audited" => DocumentIssues = Unmet(raw)

\* a page with an empty head, a skip link and a main: title, viewport,
\* charset, lang and nav are reported, skip link and main are not
C17_Witness ==
    /\ pc = "audited"
    /\ HasSkipLink(raw)
    /\ Count(raw, "main") = 1
    /\ [n \in 1..Len(DocumentIssues) |-> DocumentIssues[n][1]]
           = <<"MISSING_TITLE", "MISSING_VIEWPORT", "MISSING_CHARSET", "MISSING_LANG",
               "MISSING_LANDMARKS">>

\* C18: a run never blocks indefinitely on the text-generation
\* collaborator: also when the collaborator never answers, remediation, once
\* begun, eventually completes.
C18_NeverBlocks == (pc = "fixing") ~> (pc = "done")

\* the anchors below body that target #main, and the anchor MISSING_SKIPLINK
\* writes, known by its text and its style
BodyOf(t) == find(t, 1, {"body"})

TargetsMain(t) ==
    {a \in Range(find_all(t, BodyOf(t), {"a"})) : Get(t, a, "href") = <<"#", "main">>}

SkipFirst(t) ==
    /\ t[BodyOf(t)].kids # <<>>
    /\ LET a == Head(t[BodyOf(t)].kids)
       IN  /\ t[a].tag = "a"
           /\ "style" \in DOMAIN t[a].attrs
           /\ get_text(t, a, <<SP>>) = <<"Skip", SP, "to", SP, "main", SP, "content">>

\* the turn of the loop that has just handled MISSING_SKIPLINK
SkipHandled ==
    /\ pc = "fixing" /\ k > 1
    /\ issues[k - 1].kind = "MISSING_SKIPLINK"
    /\ BodyOf(pre) # 0

C19_Inserted ==
    SkipHandled =>
        IF TargetsMain(pre) = {}
        THEN /\ SkipFirst(soup)
             /\ Get(soup, Head(soup[BodyOf(soup)].kids), "href") = <<"#", "main">>
             /\ Cardinality(Anchors(soup)) = Cardinality(Anchors(pre)) + 1
        ELSE soup = pre

C19_Returned ==
    (/\ pc = "done"
     /\ \E n \in 1..Len(issues) : issues[n].kind = "MISSING_SKIPLINK"
     /\ BodyOf(raw) # 0
     /\ TargetsMain(raw) = {}) => SkipFirst(soup)

\* C19: handling MISSING_SKIPLINK on a body without an anchor to #main
\* inserts exactly one skip anchor as the first child of body, and inserts
\* nothing when there is such an anchor; in the tree remediation returns for
\* the issues audit produced, the skip anchor is the first child of body.
C19_SkipLinkFirst == C19_Inserted /\ C19_Returned

\* the link the turn just taken worked on: the first anchor, in document
\* order, that the test of the branch let through (0 when there is none)
LinkHandled ==
    IF pc = "fixing" /\ k > 1 /\ issues[k - 1].kind \in {"POOR_LINK_TEXT", "LINK_NO_NAME"}
       /\ issues[k - 1].chunk.role = "link"
    THEN First(SelectSeq(find_all(pre, 1, {"a"}),
                         LAMBDA a : a \in Relocated(pre, issues[k - 1])))
    ELSE 0

\* the replacement text in the order aria-label, title, slug of href, default
PreferredText(a, dflt) ==
    IF Get(pre, a, "aria-label") # <<>> THEN Get(pre, a, "aria-label")
    ELSE IF Get(pre, a, "title") # <<>> THEN Get(pre, a, "title")
    ELSE IF SlugOf(Strip(Get(pre, a, "href"))) # <<>>
    THEN SlugOf(Strip(Get(pre, a, "href")))
    ELSE dflt

\* C20: for POOR_LINK_TEXT and for LINK_NO_NAME the link gets as text its
\* aria-label, else its title, else the label derived from the slug of its
\* href, else "Learn More" (POOR_LINK_TEXT) or "Link" (LINK_NO_NAME).
C20_LabelPriority ==
    LinkHandled # 0 =>
        soup[StringOf(soup, LinkHandled)].text
            = PreferredText(LinkHandled,
                            IF issues[k - 1].kind = "POOR_LINK_TEXT"
                            THEN <<"Learn", SP, "More">> ELSE <<"Link">>)

\* C21: after extract, audit and remediation with the issues audit gave,
\* every img that audit flagged MISSING_ALT has a non-empty alt.
C21_AltResolved ==
    pc = "done" => \A img \in FlaggedAs("MISSING_ALT") : Strip(Get(soup, img, "alt")) # <<>>

\* C28: remediation leaves the alt of every img whose alt was non-empty
\* before remediation as it was.
C28_AltKept ==
    pc = "done" =>
        \A img \in Range(find_all(raw, 1, {"img"})) :
            Strip(Get(raw, img, "alt")) # <<>> => Get(soup, img, "alt") = Get(raw, img, "alt")

\* the base elements of t, and whether an href names the javascript scheme
Bases(t) == Range(find_all(t, 1, {"base"}))

IsJavascript(href) == Len(href) >= 2 /\ href[1] = "javascript" /\ href[2] = ":"

\* the tree has a base element in head
C22_BaseInHead ==
    /\ HeadOf(soup) # 0
    /\ find(soup, HeadOf(soup), {"base"}) # 0
    /\ IF Bases(pre) = {}
       THEN \E b \in Bases(soup) : Bases(soup) = {b} /\ Get(soup, b, "href") = page_url
       ELSE Bases(soup) = Bases(pre) /\ \A b \in Bases(pre) : soup[b] = pre[b]

\* every anchor that carries an href has it resolved, unless it is javascript:
C22_Hrefs ==
    \A a \in Range(find_all(pre, 1, {"a"})) :
        Has(pre, a, "href") =>
            Get(soup, a, "href")
                = IF IsJavascript(Get(pre, a, "href")) THEN Get(pre, a, "href")
                  ELSE urljoin(page_url, Get(pre, a, "href"))

\* C22: after normalize_urls with a non-empty base_url the tree has a base
\* element in head (inserted with href = base_url when there was none, an
\* existing one unchanged), every anchor href that does not start with
\* "javascript:" is its resolution against base_url, and javascript: hrefs
\* are as they were.
C22_BaseAndHrefs ==
    (pc = "normalizing" /\ runs = 1 /\ page_url # <<>>) => C22_BaseInHead /\ C22_Hrefs

\* the turn just taken handled a BAD_HEADING_ORDER issue of a heading chunk
HeadingHandled ==
    /\ pc = "fixing" /\ k > 1
    /\ issues[k - 1].kind = "BAD_HEADING_ORDER"
    /\ issues[k - 1].chunk.role = "heading"

\* the turn renamed the heading the issue came from, and only that one
C23_RenamedOwn ==
    HeadingHandled =>
        LET h == issues[k - 1].chunk.node
            n == LevelOfTag(issues[k - 1].chunk.attrs.tag)
        IN  n \in 3..6 =>
                /\ pre[h].tag = HTag(n)
                /\ soup[h].tag = HTag(n - 1)
                /\ \A j \in DOMAIN pre : j # h => soup[j].tag = pre[j].tag

\* C23: a BAD_HEADING_ORDER issue of a heading at level n in 3..6 renames
\* exactly the heading that triggered it from h(n) to h(n-1) and no other
\* heading, also when another heading of that level has the same text; no
\* heading at level 1 or 2 is ever renamed.
C23_DemoteExactlyOne ==
    /\ C23_RenamedOwn
    /\ (pc = "fixing" /\ k > 1) =>
           \A j \in DOMAIN pre : pre[j].tag \in {"h1", "h2"} => soup[j].tag = pre[j].tag

\* the URLs of the tree are those of the markup handed in: no base element
\* added, and src, srcset and href of its images and anchors as they were
UrlsAsGiven ==
    /\ Bases(soup) = Bases(raw)
    /\ \A i \in Range(find_all(raw, 1, {"img", "a"})) :
           \A name \in {"src", "srcset", "href"} : Get(soup, i, name) = Get(raw, i, name)

\* a turn of the loop: the next issue of the list, on the tree as it is now
TurnInOrder ==
    (pc = "fixing" /\ pc' = "fixing") =>
        /\ k' = k + 1
        /\ pre' = soup
        /\ (issues[k].kind \in ElementKinds /\ Relocated(soup, issues[k]) = {}) => soup' = soup

\* C24: apply_fixes handles the issues in the order of the list, each turn
\* working on the tree the turns before left, and normalize_urls runs once,
\* after the last issue: while the loop runs the URLs are those handed in.
C24_OrderThenNormalize ==
    /\ [](pc = "fixing" => (k \in 1..(Len(issues) + 1) /\ UrlsAsGiven))
    /\ [](pc = "done" => (k = Len(issues) + 1 /\ soup = normalize_urls(pre, page_url)))
    /\ [][TurnInOrder]_vars

\* the second of two MISSING_ALT issues for images without src finds no
\* image left to fix, the first having given both their alt
C24_Witness ==
    /\ pc = "fixing"
    /\ k > 2
    /\ issues[k - 1].kind = "MISSING_ALT"
    /\ Relocated(raw, issues[k - 1]) # {}
    /\ Relocated(pre, issues[k - 1]) = {}
    /\ soup = pre
    /\ soup # raw
    /\ UrlsAsGiven

\* the elements from the root down to el
RECURSIVE Lineage(_, _)
Lineage(t, el) == IF el = 0 THEN <<>> ELSE Lineage(t, t[el].parent) \o <<el>>

\* the segment of element j: its tag, and its 1-based place among the
\* children of its parent that have its tag when there are several (else 0)
SegmentOf(t, j) ==
    LET kids == IF t[j].parent = 0 THEN <<>> ELSE t[t[j].parent].kids
        Same == {n \in 1..Len(kids) : t[kids[n]].tag = t[j].tag}
    IN  [tag |-> t[j].tag,
         nth |-> IF Cardinality(Same) > 1
                 THEN Cardinality({n \in Same : n <= IndexIn(kids, j)}) ELSE 0]

\* the element and its nearest ancestors, 12 at most, root first
StructuralPath(t, el) ==
    LET line == Lineage(t, el)
        near == SubSeq(line, IF Len(line) > 12 THEN Len(line) - 11 ELSE 1, Len(line))
    IN  [n \in 1..Len(near) |-> SegmentOf(t, near[n])]

C26_JumpDetails ==
    pc = "audited" =>
        \A n \in 1..Len(issues) :
            issues[n].kind = "BAD_HEADING_ORDER" =>
                /\ issues[n].details.prev \in 1..4
                /\ issues[n].details.curr \in (issues[n].details.prev + 2)..6
                /\ issues[n].chunk.attrs.tag = HTag(issues[n].details.curr)
                /\ issues[n].chunk.attrs.tag \in {"h3", "h4", "h5", "h6"}

\* h1, h3, h6 audited: the issues (prev 1, curr 3) and (prev 3, curr 6)
C26_Witness ==
    /\ pc = "audited"
    /\ C26_JumpDetails
    /\ \E n \in 1..Len(issues) :
           issues[n].kind = "BAD_HEADING_ORDER" /\ issues[n].details = [prev |-> 1, curr |-> 3]
    /\ \E n \in 1..Len(issues) :
           issues[n].kind = "BAD_HEADING_ORDER" /\ issues[n].details = [prev |-> 3, curr |-> 6]

\* C27: the text a POOR_LINK_TEXT turn writes into the link is not vague:
\* trimmed and lower-cased it is outside the vague-text set of audit, so
\* that auditing the link again reports no POOR_LINK_TEXT.
C27_NewTextNotVague ==
    (LinkHandled # 0 /\ issues[k - 1].kind = "POOR_LINK_TEXT") =>
        Lower(Strip(get_text(soup, LinkHandled, <<SP>>))) \notin _VAGUE_LINK_TEXT

\* the anchor MISSING_SKIPLINK writes is in the tree: an anchor that the
\* markup handed in did not hold, carrying the style of the skip link
SkipInserted ==
    \E a \in DOMAIN soup \ DOMAIN raw : soup[a].tag = "a" /\ "style" \in DOMAIN soup[a].attrs

\* C29: whenever remediation inserted the skip link, the tree it returns
\* holds an element with id "main", the target of the link.
C29_SkipTarget ==
    (pc = "done" /\ SkipInserted) =>
        \E j \in DOMAIN soup : Get(soup, j, "id") = <<"main">>

\* C30: after extract, audit and remediation with the issues audit gave,
\* the document chunk of the remediated tree, audited, yields none of the
\* document-level issues.
C30_DocFixpoint ==
    pc = "done" => DocIssuesOf(DocumentChunk(soup)) = <<>>

=============================================================================
